---- MODULE Spec2Model ----
(***************************************************************************)
(* Model of the DCS mobile viewer's client-side stores:                    *)
(*   - the multi-layer cache of src/lib/cache.ts (memory, AsyncStorage,    *)
(*     FileSystem) with its stale-while-revalidate access pattern;         *)
(*   - the annotation store of src/components/ServicesOverlay.tsx          *)
(*     (AnnotationsProvider).                                              *)
(*                                                                         *)
(* Execution model: one JavaScript thread.  A step of the model is either  *)
(* one macrotask (an event handler starting a call, or the completion of   *)
(* an I/O operation or of a network fetch, run up to its next suspension)  *)
(* or one job of the promise job queue (`microtasks`).  Macrotasks run     *)
(* only when the job queue is empty; jobs run in FIFO order.               *)
(*                                                                         *)
(* Storage model: the native storage modules execute operations in the     *)
(* order they are issued, so a write takes effect, and a read takes its    *)
(* snapshot, when it is issued; only the delivery of the completion to     *)
(* JavaScript is delayed.                                                  *)
(***************************************************************************)
EXTENDS Integers, Sequences, FiniteSets, TLC

\* ---------------------------------------------------------------- bounds
NumCallers == 2
MaxOps == 2
MaxTime == 2
Ttl == 1

Callers == 1..NumCallers
Keys == {"k1"}
StringData == {"A", "B"}
Data == StringData \cup {"Obj"}
Nil == "nil"

\* ------------------------------------------------------------ cache types
\* CacheEntry<T>
CacheEntry(data, timestamp, ttl, key) ==
  [data |-> data, timestamp |-> timestamp, ttl |-> ttl, key |-> key]

\* `null` where a CacheEntry is expected
NoEntry == [absent |-> TRUE]

\* AsyncStorage.getItem of a key that holds nothing; a file that does not exist
NoItem == <<>>

\* typeof data === 'string'
IsString(data) == data \in StringData

\* JSON.stringify / JSON.parse (the values of the model are JSON-clean, so the
\* round trip gives the value back, but a serialization is not the value)
JSONstringify(v) == <<"json", v>>
JSONparse(s) == s[2]

\* A stored text that JSON.parse rejects (a write cut short), and the test
Unparsable == <<"json">>
IsJSON(s) == Len(s) = 2

\* `${timestamp}\n${ttl}\n${data}` and its split('\n')
FileContent(timestamp, ttl, data) == <<timestamp, ttl, data>>

VARIABLES
  now,           \* Date.now()
  useFileSystem, \* per key: the persistent tier its callers pass
  memoryCache,   \* Map<string, CacheEntry>
  asyncStorage,  \* AsyncStorage: key -> JSON text
  fileSystem,    \* CACHE_DIR: key -> file content
  microtasks,    \* promise job queue
  pc,            \* per caller: where its call is suspended
  kind,          \* per caller: the call it is making
  ckey,          \* per caller: the key of its call
  cached,        \* per caller: what getCache returned
  readVal,       \* per caller: snapshot taken by the storage read in flight
  fetched,       \* per caller: what the awaited fetchFn resolved with
  result,        \* per caller: the value (or "rejected") its promise settled with
  bgState,       \* per caller: state of the background revalidation it started
  opsStarted,    \* number of calls started so far
  persistSkipped, \* history: some persistent write failed or was skipped
  retryDue,      \* history: a revalidation failed and no write followed
  owes,          \* history, per caller: call started while retryDue
  clean          \* history, per caller: nobody else touched the key since it started

cacheState == <<useFileSystem, memoryCache, asyncStorage, fileSystem, microtasks,
                pc, kind, ckey, cached, readVal, fetched, result, bgState,
                opsStarted, persistSkipped, retryDue, owes, clean>>

cacheVars == <<now, cacheState>>

VARIABLES
  annotations,   \* React state of AnnotationsProvider, which the callbacks of the
                 \* current render close over
  annStorage,    \* AsyncStorage item '@dcs_annotations'
  isLoading,     \* React state
  annIO,         \* storage operations in flight, in the order they were issued
  annOps,        \* number of create/update/remove calls issued
  nextId,        \* ids handed out so far (`${Date.now()}-${random}` is fresh)
  created,       \* history: ids of the annotations created
  removed,       \* history: ids passed to removeAnnotation
  annError,      \* history: a storage operation of the store failed
  annCalls,      \* history: the create/update/remove calls, in the order issued
  annResults,    \* history: how the promise of each completed call settled
  earlyOp,       \* history: a call was issued before the initial load finished
  persistedAtStart \* history: the ids of the annotations stored before start-up

annVars == <<annotations, annStorage, isLoading, annIO, annOps, nextId,
             created, removed, annError, annCalls, annResults, earlyOp,
             persistedAtStart>>

VARIABLES
  dom,           \* the document instance shown (root element, markers included)
  injected,      \* the annotations handed to the render pass, in array order
  log,           \* history: the insertAnnotationMarker calls of the last render pass
  rendered,      \* history: the marker places after each pass over this instance
  passes         \* number of render passes run

domVars == <<dom, injected, log, rendered, passes>>

VARIABLES
  assetUrl,         \* per caller: the url of its cacheAsset call
  downloadsStarted, \* history, per url: FileSystem.downloadAsync calls started
  downloadsFailed,  \* history, per url: downloads that ended without status 200
  downloaded,       \* history, per url: the path its first successful download returned
  assetCalls,       \* number of cacheAsset calls made
  htmlPc,           \* where the cacheHtmlAssets call is
  htmlRest,         \* cacheHtmlAssets: the urls of the batches still to come
  htmlBatch,        \* cacheHtmlAssets: per caller, the url of the current batch it serves
  htmlConcurrent,   \* cacheHtmlAssets: its maxConcurrent
  assetMap          \* cacheHtmlAssets: the map it builds

assetVars == <<assetUrl, downloadsStarted, downloadsFailed, downloaded, assetCalls,
               htmlPc, htmlRest, htmlBatch, htmlConcurrent, assetMap>>

VARIABLES
  setData,       \* history, per caller: the data of the setCache call it made
  deleted        \* history, per key: a removal of the key completed, no setCache since

maintVars == <<setData, deleted>>

VARIABLES
  statsPc,       \* where the getCacheStats call is suspended
  statsRest,     \* getCacheStats: the keys, then the files, still to visit
  stats,         \* getCacheStats: its running totals
  statsFailed    \* history: the entry whose read rejected, <<tier, key>>

statsVars == <<statsPc, statsRest, stats, statsFailed>>

VARIABLES
  selectedResource, \* the resource shown by the content screen (dependency of its effect)
  mounted,          \* whether the content screen is mounted
  htmlContent,      \* React state of the content screen
  loadError,        \* React state of the content screen
  isLoadingHtml,    \* React state of the content screen
  loads,            \* the loadContent runs whose fetch is pending, oldest first
  loadsStarted,     \* number of loadContent runs started
  lastSettled,      \* history: the loadContent run that settled last
  selectedDate,     \* React state of ServicesProvider
  services,         \* React state of ServicesProvider
  loadingServices,  \* React state of ServicesProvider
  dateFetches,      \* the selectDate calls whose fetch is pending, oldest first
  selectCalls,      \* number of selectDate calls made
  fetchRejected     \* history: the fetch of a selectDate call rejected

uiVars == <<selectedResource, mounted, htmlContent, loadError, isLoadingHtml, loads,
            loadsStarted, lastSettled, selectedDate, services, loadingServices,
            dateFetches, selectCalls, fetchRejected>>

vars == <<cacheVars, annVars, domVars, assetVars, maintVars, statsVars, uiVars>>

\* ------------------------------------------------------- core functions
\* isStale(entry)
isStale(entry) == now - entry.timestamp > entry.ttl

\* getFromMemory(key)
getFromMemory(key) == memoryCache[key]

\* setInMemory(key, data, ttl): the map after the call
setInMemory(mem, key, data, ttl) ==
  [mem EXCEPT ![key] = CacheEntry(data, now, ttl, key)]

\* getFromAsyncStorage(key), given the JSON text the read delivered
getFromAsyncStorage(json) ==
  IF json = NoItem THEN NoEntry
  ELSE IF ~IsJSON(json) THEN NoEntry
  ELSE JSONparse(json)

\* setInAsyncStorage(key, data, ttl): the store after the call; the catch block
\* swallows a failed write (ok = FALSE)
setInAsyncStorage(store, key, data, ttl, ok) ==
  IF ok THEN [store EXCEPT ![key] = JSONstringify(CacheEntry(data, now, ttl, key))]
        ELSE store

\* getFromFileSystem(key), given the content the read delivered (NoItem: the file
\* is gone and readAsStringAsync throws into the catch block)
getFromFileSystem(key, lines) ==
  IF lines = NoItem THEN NoEntry
  ELSE IF Len(lines) < 3 THEN NoEntry
  ELSE CacheEntry(lines[3], lines[1], lines[2], key)

\* setInFileSystem(key, data, ttl): the directory after the call
setInFileSystem(files, key, data, ttl, ok) ==
  IF ok THEN [files EXCEPT ![key] = FileContent(now, ttl, data)]
        ELSE files

\* The entry the persistent tier of a key holds, as a read would parse it
PersistedIn(files, store, key) ==
  IF useFileSystem[key] THEN getFromFileSystem(key, files[key])
                        ELSE getFromAsyncStorage(store[key])

Persisted(key) == PersistedIn(fileSystem, asyncStorage, key)

\* A comparison that never sees a change
RevalidationNeverChanged(freshData, data) == FALSE

\* JSON.stringify(freshData) !== JSON.stringify(data)
RevalidationChanged(freshData, data) ==
  JSONstringify(freshData) # JSONstringify(data)

Job(k, c) == [kind |-> k, c |-> c]

\* ---------------------------------------------------------------- Init
InitCache ==
  /\ now = 0
  /\ useFileSystem \in [Keys -> BOOLEAN]
  /\ memoryCache = [k \in Keys |-> NoEntry]
  /\ \E old \in [Keys -> {"A", Nil}] :
       /\ asyncStorage = [k \in Keys |->
            IF ~useFileSystem[k] /\ old[k] # Nil
              THEN JSONstringify(CacheEntry(old[k], 0, Ttl, k)) ELSE NoItem]
       /\ fileSystem = [k \in Keys |->
            IF useFileSystem[k] /\ old[k] # Nil
              THEN FileContent(0, Ttl, old[k]) ELSE NoItem]
  /\ microtasks = <<>>
  /\ pc = [c \in Callers |-> "idle"]
  /\ kind = [c \in Callers |-> Nil]
  /\ ckey = [c \in Callers |-> "k1"]
  /\ cached = [c \in Callers |-> NoEntry]
  /\ readVal = [c \in Callers |-> NoItem]
  /\ fetched = [c \in Callers |-> Nil]
  /\ result = [c \in Callers |-> Nil]
  /\ bgState = [c \in Callers |-> "none"]
  /\ opsStarted = 0
  /\ persistSkipped = FALSE
  /\ retryDue = FALSE
  /\ owes = [c \in Callers |-> FALSE]
  /\ clean = [c \in Callers |-> FALSE]

\* ------------------------------------------------------- shared pieces
\* Another caller touched the key: every other call in flight is no longer alone
Touch(c) == clean' = [x \in Callers |-> IF x = c THEN clean[x] ELSE FALSE]

\* An async function returns: its promise settles and the caller's continuation
\* is queued as a promise job
Return(c, value, jobsBefore) ==
  /\ result' = [result EXCEPT ![c] = value]
  /\ pc' = [pc EXCEPT ![c] = "resume"]
  /\ microtasks' = jobsBefore \o <<Job("resume", c)>>

\* setCache(key, data, ttl, useFileSystem) up to its await: memory is written,
\* the persistent write is issued (ok: whether it succeeds).
\* (First a variant that writes memory only when the persistent write succeeds.)
setCacheAfterPersist(c, key, data, ttl, ok) ==
  /\ memoryCache' = IF ok /\ (~useFileSystem[key] \/ IsString(data))
                      THEN setInMemory(memoryCache, key, data, ttl)
                      ELSE memoryCache
  /\ IF useFileSystem[key]
       THEN /\ fileSystem' = IF IsString(data)
                               THEN setInFileSystem(fileSystem, key, data, ttl, ok)
                               ELSE fileSystem
            /\ asyncStorage' = asyncStorage
       ELSE /\ asyncStorage' = setInAsyncStorage(asyncStorage, key, data, ttl, ok)
            /\ fileSystem' = fileSystem
  /\ persistSkipped' = (persistSkipped \/ ~ok \/ (useFileSystem[key] /\ ~IsString(data)))
  /\ retryDue' = FALSE
  /\ owes' = [x \in Callers |-> FALSE]
  /\ Touch(c)

setCache(c, key, data, ttl, ok) ==
  /\ memoryCache' = setInMemory(memoryCache, key, data, ttl)
  /\ IF useFileSystem[key]
       THEN /\ fileSystem' = IF IsString(data)
                               THEN setInFileSystem(fileSystem, key, data, ttl, ok)
                               ELSE fileSystem
            /\ asyncStorage' = asyncStorage
       ELSE /\ asyncStorage' = setInAsyncStorage(asyncStorage, key, data, ttl, ok)
            /\ fileSystem' = fileSystem
  /\ persistSkipped' = (persistSkipped \/ ~ok \/ (useFileSystem[key] /\ ~IsString(data)))
  /\ retryDue' = FALSE
  /\ owes' = [x \in Callers |-> FALSE]
  /\ Touch(c)

\* setCache awaits a storage write unless the payload is refused by the blob tier
SetCacheAwaits(key, data) == ~useFileSystem[key] \/ IsString(data)

\* getWithRevalidate, lines 432-455: an entry was found.  On a stale entry
\* fetchFn() is called and not awaited; a fetchFn whose promise is already
\* settled gets its reaction queued before the caller's continuation.
\* (First a variant that would await the fetch of a stale entry.)
getWithRevalidateHitAwaits(c, entry) ==
  IF isStale(entry)
    THEN /\ pc' = [pc EXCEPT ![c] = "fetchFn"]
         /\ UNCHANGED <<result, bgState, microtasks>>
    ELSE /\ Return(c, entry.data, <<>>)
         /\ bgState' = bgState

getWithRevalidateHit(c, entry) ==
  IF isStale(entry)
    THEN \E immediate \in BOOLEAN :
           /\ bgState' = [bgState EXCEPT ![c] = IF immediate THEN "queued" ELSE "pending"]
           /\ Return(c, entry.data, IF immediate THEN <<Job("bgSettle", c)>> ELSE <<>>)
    ELSE /\ bgState' = bgState
         /\ Return(c, entry.data, <<>>)

\* getWithRevalidate, lines 457-459: nothing cached, fetchFn() is awaited
getWithRevalidateMiss(c) ==
  /\ pc' = [pc EXCEPT ![c] = "fetchFn"]
  /\ UNCHANGED <<result, bgState, microtasks>>

\* What follows `await getCache(...)` in the caller of getCache
AfterGetCache(c, callKind, entry) ==
  IF callKind = "getCache"
    THEN /\ Return(c, IF entry = NoEntry THEN Nil ELSE entry.data, <<>>)
         /\ bgState' = bgState
    ELSE IF entry # NoEntry THEN getWithRevalidateHit(c, entry)
                            ELSE getWithRevalidateMiss(c)

\* getCache, lines 253-268: a persistent-tier hit is promoted to memory
Promote(c, entry) ==
  IF entry # NoEntry
    THEN /\ memoryCache' = setInMemory(memoryCache, ckey[c], entry.data, entry.ttl)
         /\ Touch(c)
    ELSE UNCHANGED <<memoryCache, clean>>

\* getWithRevalidate, line 460: the awaited fetch resolved, the value is stored
\* (first a variant that would store nothing)
getWithRevalidateStoreSkipped(c, data, ok) ==
  UNCHANGED <<memoryCache, asyncStorage, fileSystem, persistSkipped, retryDue, owes, clean>>

getWithRevalidateStore(c, data, ok) ==
  setCache(c, ckey[c], data, Ttl, ok)

\* getWithRevalidate, lines 449-451: the catch handler of the background fetch
\* (first a variant that would drop the entry)
RevalidationFailedEvicts(c) ==
  /\ memoryCache' = [memoryCache EXCEPT ![ckey[c]] = NoEntry]
  /\ UNCHANGED <<asyncStorage, fileSystem, result, pc>>

RevalidationFailed(c) ==
  UNCHANGED <<memoryCache, asyncStorage, fileSystem, result, pc>>

\* A background task runs either as the next promise job (fetchFn had already
\* settled) or as a macrotask when the network answers
BgTaskRuns(c) ==
  \/ /\ microtasks # <<>>
     /\ Head(microtasks) = Job("bgSettle", c)
     /\ microtasks' = Tail(microtasks)
  \/ /\ microtasks = <<>>
     /\ bgState[c] = "pending"
     /\ microtasks' = microtasks

\* --------------------------------------------------------------- actions
\* Date.now() advances
Tick ==
  /\ microtasks = <<>>
  /\ now < MaxTime
  /\ now' = now + 1
  /\ UNCHANGED <<uiVars, statsVars, maintVars, annVars, domVars, assetVars, useFileSystem, memoryCache, asyncStorage, fileSystem, microtasks,
                 pc, kind, ckey, cached, readVal, fetched, result, bgState,
                 opsStarted, persistSkipped, retryDue, owes, clean>>

\* getCache(key, useFileSystem), lines 244-273, up to its first await; called by
\* getWithRevalidate (line 430) or directly
StartGet(c, k, callKind) ==
  /\ microtasks = <<>>
  /\ pc[c] = "idle"
  /\ opsStarted < MaxOps
  /\ opsStarted' = opsStarted + 1
  /\ kind' = [kind EXCEPT ![c] = callKind]
  /\ ckey' = [ckey EXCEPT ![c] = k]
  /\ owes' = [owes EXCEPT ![c] = retryDue /\ callKind = "getWithRevalidate"]
  /\ clean' = [clean EXCEPT ![c] = TRUE]
  /\ IF getFromMemory(k) # NoEntry
       THEN /\ cached' = [cached EXCEPT ![c] = getFromMemory(k)]
            /\ readVal' = readVal
            /\ AfterGetCache(c, callKind, getFromMemory(k))
       ELSE /\ cached' = cached
            /\ readVal' = [readVal EXCEPT ![c] =
                 IF useFileSystem[k] THEN fileSystem[k] ELSE asyncStorage[k]]
            /\ pc' = [pc EXCEPT ![c] =
                 IF useFileSystem[k] THEN "getInfoAsync" ELSE "getItem"]
            /\ UNCHANGED <<result, bgState, microtasks>>
  /\ UNCHANGED <<uiVars, statsVars, maintVars, annVars, domVars, assetVars, now, useFileSystem, memoryCache, asyncStorage, fileSystem, fetched,
                 persistSkipped, retryDue>>

StartGetWithRevalidate(c, k) == StartGet(c, k, "getWithRevalidate")

StartGetCache(c, k) == StartGet(c, k, "getCache")

\* setCache(key, data, ttl, useFileSystem), lines 278-299, called directly
StartSetCache(c, k, data, ok) ==
  /\ microtasks = <<>>
  /\ pc[c] = "idle"
  /\ opsStarted < MaxOps
  /\ opsStarted' = opsStarted + 1
  /\ kind' = [kind EXCEPT ![c] = "setCache"]
  /\ ckey' = [ckey EXCEPT ![c] = k]
  /\ setCache(c, k, data, Ttl, ok)
  /\ setData' = [setData EXCEPT ![c] = data]
  /\ deleted' = [deleted EXCEPT ![k] = FALSE]
  /\ IF SetCacheAwaits(k, data)
       THEN /\ pc' = [pc EXCEPT ![c] = "setCache"]
            /\ UNCHANGED <<result, microtasks>>
       ELSE Return(c, "void", <<>>)
  /\ UNCHANGED <<uiVars, statsVars, annVars, domVars, assetVars, now, useFileSystem, cached, readVal, fetched, bgState>>

\* getFromAsyncStorage: AsyncStorage.getItem delivers (lines 262-268)
GetItemDone(c) ==
  /\ microtasks = <<>>
  /\ pc[c] = "getItem"
  /\ LET entry == getFromAsyncStorage(readVal[c]) IN
       /\ cached' = [cached EXCEPT ![c] = entry]
       /\ Promote(c, entry)
       /\ AfterGetCache(c, kind[c], entry)
  /\ UNCHANGED <<uiVars, statsVars, maintVars, annVars, domVars, assetVars, now, useFileSystem, asyncStorage, fileSystem, kind, ckey, readVal,
                 fetched, opsStarted, persistSkipped, retryDue, owes>>

\* getFromFileSystem: FileSystem.getInfoAsync delivers (lines 199-204)
GetInfoDone(c) ==
  /\ microtasks = <<>>
  /\ pc[c] = "getInfoAsync"
  /\ IF readVal[c] = NoItem
       THEN /\ AfterGetCache(c, kind[c], NoEntry)
            /\ readVal' = readVal
       ELSE /\ pc' = [pc EXCEPT ![c] = "readAsString"]
            /\ readVal' = [readVal EXCEPT ![c] = fileSystem[ckey[c]]]
            /\ UNCHANGED <<result, bgState, microtasks>>
  /\ UNCHANGED <<uiVars, statsVars, maintVars, annVars, domVars, assetVars, now, useFileSystem, memoryCache, asyncStorage, fileSystem, kind, ckey,
                 cached, fetched, opsStarted, persistSkipped, retryDue, owes, clean>>

\* getFromFileSystem: FileSystem.readAsStringAsync delivers (lines 204-218, 254-260)
ReadAsStringDone(c) ==
  /\ microtasks = <<>>
  /\ pc[c] = "readAsString"
  /\ LET entry == getFromFileSystem(ckey[c], readVal[c]) IN
       /\ cached' = [cached EXCEPT ![c] = entry]
       /\ Promote(c, entry)
       /\ AfterGetCache(c, kind[c], entry)
  /\ UNCHANGED <<uiVars, statsVars, maintVars, annVars, domVars, assetVars, now, useFileSystem, asyncStorage, fileSystem, kind, ckey, readVal,
                 fetched, opsStarted, persistSkipped, retryDue, owes>>

\* getWithRevalidate, lines 459-460: the awaited fetchFn resolves with data
FetchResolve(c, data, ok) ==
  /\ microtasks = <<>>
  /\ pc[c] = "fetchFn"
  /\ fetched' = [fetched EXCEPT ![c] = data]
  /\ getWithRevalidateStore(c, data, ok)
  /\ IF SetCacheAwaits(ckey[c], data)
       THEN /\ pc' = [pc EXCEPT ![c] = "setCache"]
            /\ UNCHANGED <<result, microtasks>>
       ELSE Return(c, data, <<>>)
  /\ UNCHANGED <<uiVars, statsVars, maintVars, annVars, domVars, assetVars, now, useFileSystem, kind, ckey, cached, readVal, bgState, opsStarted>>

\* getWithRevalidate, line 459: the awaited fetchFn rejects, and so does the call
FetchReject(c) ==
  /\ microtasks = <<>>
  /\ pc[c] = "fetchFn"
  /\ Return(c, "rejected", <<>>)
  /\ UNCHANGED <<uiVars, statsVars, maintVars, annVars, domVars, assetVars, now, useFileSystem, memoryCache, asyncStorage, fileSystem, kind, ckey,
                 cached, readVal, fetched, bgState, opsStarted, persistSkipped,
                 retryDue, owes, clean>>

\* setCache: the awaited storage write delivers; setCache returns, and with it
\* getWithRevalidate (line 461)
WriteDone(c) ==
  /\ microtasks = <<>>
  /\ pc[c] = "setCache"
  /\ Return(c, IF kind[c] = "setCache" THEN "void" ELSE fetched[c], <<>>)
  /\ UNCHANGED <<uiVars, statsVars, maintVars, annVars, domVars, assetVars, now, useFileSystem, memoryCache, asyncStorage, fileSystem, kind, ckey,
                 cached, readVal, fetched, bgState, opsStarted, persistSkipped,
                 retryDue, owes, clean>>

\* getWithRevalidate, lines 442-448: the background fetchFn resolved with freshData
BgThen(c, freshData, ok) ==
  /\ BgTaskRuns(c)
  /\ fetched' = [fetched EXCEPT ![c] = freshData]
  /\ IF RevalidationChanged(freshData, cached[c].data)
       THEN /\ setCache(c, ckey[c], freshData, Ttl, ok)
            /\ bgState' = [bgState EXCEPT ![c] = "updated"]
       ELSE /\ bgState' = [bgState EXCEPT ![c] = "unchanged"]
            /\ UNCHANGED <<memoryCache, asyncStorage, fileSystem, persistSkipped,
                           retryDue, owes, clean>>
  /\ UNCHANGED <<uiVars, statsVars, maintVars, annVars, domVars, assetVars, now, useFileSystem, pc, kind, ckey, cached, readVal, result, opsStarted>>

\* getWithRevalidate, lines 449-451: the background fetchFn rejected
BgCatch(c) ==
  /\ BgTaskRuns(c)
  /\ bgState' = [bgState EXCEPT ![c] = "failed"]
  /\ retryDue' = TRUE
  /\ RevalidationFailed(c)
  /\ UNCHANGED <<uiVars, statsVars, maintVars, annVars, domVars, assetVars, now, useFileSystem, kind, ckey, cached, readVal, fetched, opsStarted,
                 persistSkipped, owes, clean>>

\* The caller's continuation runs: the value is delivered
Resume(c) ==
  /\ microtasks # <<>>
  /\ Head(microtasks) = Job("resume", c)
  /\ microtasks' = Tail(microtasks)
  /\ pc' = [pc EXCEPT ![c] = "done"]
  /\ UNCHANGED <<uiVars, statsVars, maintVars, annVars, domVars, assetVars, now, useFileSystem, memoryCache, asyncStorage, fileSystem, kind, ckey,
                 cached, readVal, fetched, result, bgState, opsStarted, persistSkipped,
                 retryDue, owes, clean>>

\* The caller is ready for its next call
Finish(c) ==
  /\ microtasks = <<>>
  /\ pc[c] = "done"
  /\ bgState[c] \notin {"queued", "pending"}
  /\ pc' = [pc EXCEPT ![c] = "idle"]
  /\ kind' = [kind EXCEPT ![c] = Nil]
  /\ cached' = [cached EXCEPT ![c] = NoEntry]
  /\ readVal' = [readVal EXCEPT ![c] = NoItem]
  /\ fetched' = [fetched EXCEPT ![c] = Nil]
  /\ result' = [result EXCEPT ![c] = Nil]
  /\ bgState' = [bgState EXCEPT ![c] = "none"]
  /\ owes' = [owes EXCEPT ![c] = FALSE]
  /\ clean' = [clean EXCEPT ![c] = FALSE]
  /\ setData' = [setData EXCEPT ![c] = Nil]
  /\ UNCHANGED <<uiVars, statsVars, deleted, annVars, domVars, assetVars, now, useFileSystem, memoryCache, asyncStorage, fileSystem, microtasks,
                 ckey, opsStarted, persistSkipped, retryDue>>

Next ==
  \/ Tick
  \/ \E c \in Callers, k \in Keys : StartGetWithRevalidate(c, k)
  \/ \E c \in Callers, k \in Keys : StartGetCache(c, k)
  \/ \E c \in Callers, k \in Keys, d \in Data, ok \in BOOLEAN : StartSetCache(c, k, d, ok)
  \/ \E c \in Callers : GetItemDone(c)
  \/ \E c \in Callers : GetInfoDone(c)
  \/ \E c \in Callers : ReadAsStringDone(c)
  \/ \E c \in Callers, d \in Data, ok \in BOOLEAN : FetchResolve(c, d, ok)
  \/ \E c \in Callers : FetchReject(c)
  \/ \E c \in Callers : WriteDone(c)
  \/ \E c \in Callers, d \in Data, ok \in BOOLEAN : BgThen(c, d, ok)
  \/ \E c \in Callers : BgCatch(c)
  \/ \E c \in Callers : Resume(c)
  \/ \E c \in Callers : Finish(c)


\* ------------------------------------------------------------ cache claims
BgInFlight(c) == bgState[c] \in {"queued", "pending"}

\* Every call has settled and no background task is outstanding
CacheSettled ==
  /\ microtasks = <<>>
  /\ \A c \in Callers : pc[c] \in {"idle", "done"} /\ ~BgInFlight(c)

\* C1: a getWithRevalidate call that found an entry (fresh or stale) has returned
\* that entry's data and is never waiting for fetchFn, whatever the state of the
\* background fetch (not started, queued, pending for ever, resolved, rejected).
C1_HitReturnsWithoutFetch ==
  \A c \in Callers :
    (kind[c] = "getWithRevalidate" /\ cached[c] # NoEntry) =>
      /\ pc[c] \in {"resume", "done"}
      /\ result[c] = cached[c].data

C1_Witness ==
  \E c \in Callers :
    /\ kind[c] = "getWithRevalidate"
    /\ cached[c] # NoEntry
    /\ pc[c] = "done"
    /\ bgState[c] = "pending"
    /\ result[c] = cached[c].data

\* C2: when the background fetch of a stale hit resolves with a value whose
\* serialization differs from the stale one, the memory tier holds the new value
\* as soon as the background task has run, and a getCache that finds an entry in
\* memory returns exactly that entry.
C2_RevalidatedValueServed ==
  [][ /\ \A c \in Callers :
           ( /\ BgInFlight(c)
             /\ bgState'[c] \in {"updated", "unchanged"}
             /\ JSONstringify(fetched'[c]) # JSONstringify(cached[c].data) )
           => memoryCache'[ckey[c]].data = fetched'[c]
      /\ \A c \in Callers :
           ( /\ pc[c] = "idle"
             /\ kind'[c] = "getCache"
             /\ memoryCache[ckey'[c]] # NoEntry )
           => /\ cached'[c] = memoryCache[ckey'[c]]
              /\ result'[c] = memoryCache[ckey'[c]].data
    ]_vars

C2_Witness ==
  \E c \in Callers, r \in Callers :
    /\ bgState[c] = "updated"
    /\ fetched[c] # cached[c].data
    /\ kind[r] = "getCache"
    /\ ckey[r] = ckey[c]
    /\ pc[r] = "done"
    /\ result[r] = fetched[c]

\* C3: when the background fetch of a stale hit resolves with a value that
\* serializes like the stale one, nothing is written, and the entry of the key has
\* in memory the data and the timestamp of the entry the call found (no other
\* caller having touched the key meanwhile).
C3_IdenticalRevalidationKeepsEntry ==
  [][ \A c \in Callers :
        ( /\ BgInFlight(c)
          /\ bgState'[c] = "unchanged"
          /\ clean[c] )
        => /\ UNCHANGED <<memoryCache, asyncStorage, fileSystem>>
           /\ memoryCache'[ckey[c]].data = cached[c].data
           /\ memoryCache'[ckey[c]].timestamp = cached[c].timestamp
    ]_vars

\* The step in which the awaited fetchFn of caller c resolves
FetchResolved(c) ==
  /\ pc[c] = "fetchFn"
  /\ pc'[c] # "fetchFn"
  /\ result'[c] # "rejected"

\* The step in which a getWithRevalidate call that found nothing delivers its value
MissDelivered(c) ==
  /\ kind[c] = "getWithRevalidate"
  /\ cached[c] = NoEntry
  /\ pc[c] = "resume"
  /\ pc'[c] = "done"
  /\ result[c] # "rejected"

\* C4 as claimed: on a miss the fetched value is written to memory and to the
\* requested persistent tier before the call returns, and is the value returned.
C4_MissWritesBothTiers ==
  [][ \A c \in Callers :
        /\ FetchResolved(c) =>
             /\ memoryCache'[ckey[c]] = CacheEntry(fetched'[c], now, Ttl, ckey[c])
             /\ PersistedIn(fileSystem', asyncStorage', ckey[c])
                  = CacheEntry(fetched'[c], now, Ttl, ckey[c])
        /\ MissDelivered(c) => (fetched[c] # Nil /\ result[c] = fetched[c])
    ]_vars

\* C4 as amended: memory is always written; the persistent tier is written unless
\* that write fails or the payload is refused by the blob tier, and then it is
\* left as it was.
C4_MissWritesMemoryThenReturns ==
  [][ \A c \in Callers :
        /\ FetchResolved(c) =>
             /\ memoryCache'[ckey[c]] = CacheEntry(fetched'[c], now, Ttl, ckey[c])
             /\ \/ PersistedIn(fileSystem', asyncStorage', ckey[c])
                     = CacheEntry(fetched'[c], now, Ttl, ckey[c])
                \/ /\ persistSkipped'
                   /\ UNCHANGED <<asyncStorage, fileSystem>>
        /\ MissDelivered(c) => (fetched[c] # Nil /\ result[c] = fetched[c])
    ]_vars

C4_Witness ==
  \E c \in Callers :
    /\ kind[c] = "getWithRevalidate"
    /\ cached[c] = NoEntry
    /\ pc[c] = "done"
    /\ fetched[c] # Nil
    /\ result[c] = fetched[c]
    /\ memoryCache[ckey[c]].data = fetched[c]
    /\ Persisted(ckey[c]) = memoryCache[ckey[c]]

\* C5: a getWithRevalidate call started after a background revalidation of the
\* key failed, with no setCache of the key since, triggers fetchFn (in the
\* background on a hit, awaited on a miss).
C5_FailedRevalidationRetried ==
  [][ \A c \in Callers :
        ( /\ kind'[c] = "getWithRevalidate"
          /\ owes'[c]
          /\ pc[c] \in {"idle", "getItem", "getInfoAsync", "readAsString"}
          /\ pc'[c] \in {"resume", "fetchFn"} )
        => (pc'[c] = "fetchFn" \/ bgState'[c] \in {"queued", "pending"})
    ]_vars

\* C6: promoting a persistent-tier entry into memory keeps its timestamp, so an
\* entry that is stale in the persistent tier is stale in memory too.
C6_PromotionKeepsTimestamp ==
  [][ \A c \in Callers :
        ( /\ pc[c] \in {"getItem", "readAsString"}
          /\ cached'[c] # NoEntry )
        => /\ memoryCache'[ckey[c]].timestamp = cached'[c].timestamp
           /\ isStale(cached'[c]) => isStale(memoryCache'[ckey[c]])
    ]_vars

\* C7: when the background fetch of a stale hit rejects, no tier changes and the
\* caller keeps the stale data it was given: its call does not turn into a
\* rejection.
C7_FailedRevalidationSwallowed ==
  [][ \A c \in Callers :
        ( /\ BgInFlight(c)
          /\ bgState'[c] = "failed" )
        => /\ UNCHANGED <<memoryCache, asyncStorage, fileSystem>>
           /\ result'[c] = cached[c].data
           /\ pc'[c] = pc[c]
    ]_vars

C7_Witness ==
  \E c \in Callers :
    /\ bgState[c] = "failed"
    /\ pc[c] = "done"
    /\ result[c] = cached[c].data
    /\ memoryCache[ckey[c]] # NoEntry
    /\ memoryCache[ckey[c]].data = cached[c].data

\* C8: once every call has settled and no persistent write failed or was skipped,
\* the memory entry and the persistent entry of a key hold the same data.
C8_TiersAgreeWhenSettled ==
  (CacheSettled /\ ~persistSkipped) =>
    \A k \in Keys :
      (memoryCache[k] # NoEntry /\ Persisted(k) # NoEntry)
        => memoryCache[k].data = Persisted(k).data

\* C9: the stale value has been delivered to the caller before a write of its
\* background revalidation is applied.
C9_DeliveredBeforeRevalidationWrite ==
  \A c \in Callers : bgState[c] = "updated" => pc[c] = "done"

\* ====================================================== annotation store
MaxAnnOps == 2

ServiceTypes == {"Matins", "Vespers"}
IconTypes == {"censor-ready"}
NoteTexts == {"t1", "t2"}
Positions == {"p1"}

\* Annotation (an optional field that is undefined holds Nil)
Annotation(id, type, iconType, noteText, position, serviceType, createdAt, updatedAt) ==
  [id |-> id, type |-> type, iconType |-> iconType, noteText |-> noteText,
   position |-> position, serviceType |-> serviceType,
   createdAt |-> createdAt, updatedAt |-> updatedAt]

\* The collection an earlier session may have persisted
StoredAtStart == <<Annotation(0, "note", Nil, "t1", "p1", "Matins", 0, 0)>>

Ids(s) == {s[i].id : i \in 1..Len(s)}

\* The persisted collection, as loadAnnotations would parse it
StoredAnnotations == IF annStorage = NoItem THEN <<>> ELSE JSONparse(annStorage)

\* After mount: loadAnnotations (lines 272-278) has issued its read
InitAnn ==
  /\ annStorage \in {NoItem, JSONstringify(StoredAtStart)}
  /\ annotations = <<>>
  /\ isLoading = TRUE
  /\ annIO = <<[op |-> "load", val |-> annStorage, ok |-> TRUE]>>
  /\ annOps = 0
  /\ nextId = 1
  /\ created = {}
  /\ removed = {}
  /\ annError = FALSE
  /\ annCalls = <<>>
  /\ annResults = <<>>
  /\ earlyOp = FALSE
  /\ persistedAtStart = Ids(StoredAnnotations)

\* saveAnnotations(newAnnotations), lines 290-292, up to its await
saveAnnotations(newAnnotations, ok) ==
  /\ annStorage' = IF ok THEN JSONstringify(newAnnotations) ELSE annStorage
  /\ annIO' = Append(annIO, [op |-> "save", val |-> newAnnotations, ok |-> ok])
  /\ annOps' = annOps + 1
  /\ earlyOp' = (earlyOp \/ isLoading)

\* loadAnnotations, lines 278-287: the read delivers
LoadDone ==
  /\ annIO # <<>>
  /\ Head(annIO).op = "load"
  /\ annIO' = Tail(annIO)
  /\ annotations' = IF Head(annIO).val # NoItem THEN JSONparse(Head(annIO).val)
                                                ELSE annotations
  /\ isLoading' = FALSE
  /\ UNCHANGED <<persistedAtStart, uiVars, statsVars, maintVars, cacheVars, domVars, assetVars, annStorage, annOps, nextId, created, removed, annError,
                 annCalls, annResults, earlyOp>>

\* saveAnnotations, lines 292-296: the write delivers
SaveDone ==
  /\ annIO # <<>>
  /\ Head(annIO).op = "save"
  /\ annIO' = Tail(annIO)
  /\ annotations' = IF Head(annIO).ok THEN Head(annIO).val ELSE annotations
  /\ annError' = (annError \/ ~Head(annIO).ok)
  /\ annResults' = Append(annResults, [ok |-> Head(annIO).ok, settled |-> "fulfilled"])
  /\ UNCHANGED <<persistedAtStart, uiVars, statsVars, maintVars, cacheVars, domVars, assetVars, annStorage, isLoading, annOps, nextId, created, removed,
                 annCalls, earlyOp>>

\* A call of the store, as its caller made it
Call(name, id, type, payload, position, serviceType) ==
  [name |-> name, id |-> id, type |-> type, payload |-> payload,
   position |-> position, serviceType |-> serviceType]

\* getAnnotationsForService(serviceType), lines 299-301
ForService(collection, serviceType) ==
  LET OfService(a) == a.serviceType = serviceType IN SelectSeq(collection, OfService)

getAnnotationsForService(serviceType) == ForService(annotations, serviceType)

\* addIconAnnotation(serviceType, iconType, position), lines 303-318; createdAt
\* and updatedAt come from two calls of Date.now(), between which the clock may
\* advance
addIconAnnotation(serviceType, iconType, position, ok) ==
  /\ annOps < MaxAnnOps
  /\ \E later \in {now, now + 1} :
       /\ later <= MaxTime
       /\ now' = later
       /\ saveAnnotations(Append(annotations,
            Annotation(nextId, "icon", iconType, Nil, position, serviceType, now, later)), ok)
  /\ nextId' = nextId + 1
  /\ created' = created \cup {nextId}
  /\ annCalls' = Append(annCalls, Call("create", nextId, "icon", iconType, position, serviceType))
  /\ UNCHANGED <<persistedAtStart, uiVars, statsVars, maintVars, cacheState, domVars, assetVars, annotations, isLoading, removed, annError, annResults>>

\* addNoteAnnotation(serviceType, noteText, position), lines 320-335
addNoteAnnotation(serviceType, noteText, position, ok) ==
  /\ annOps < MaxAnnOps
  /\ \E later \in {now, now + 1} :
       /\ later <= MaxTime
       /\ now' = later
       /\ saveAnnotations(Append(annotations,
            Annotation(nextId, "note", Nil, noteText, position, serviceType, now, later)), ok)
  /\ nextId' = nextId + 1
  /\ created' = created \cup {nextId}
  /\ annCalls' = Append(annCalls, Call("create", nextId, "note", noteText, position, serviceType))
  /\ UNCHANGED <<persistedAtStart, uiVars, statsVars, maintVars, cacheState, domVars, assetVars, annotations, isLoading, removed, annError, annResults>>

\* updateNoteAnnotation(id, noteText), lines 337-342
updateNoteAnnotation(id, noteText, ok) ==
  /\ annOps < MaxAnnOps
  /\ saveAnnotations([i \in 1..Len(annotations) |->
        IF annotations[i].id = id
          THEN [annotations[i] EXCEPT !.noteText = noteText, !.updatedAt = now]
          ELSE annotations[i]], ok)
  /\ annCalls' = Append(annCalls, Call("update", id, Nil, noteText, Nil, Nil))
  /\ UNCHANGED <<persistedAtStart, uiVars, statsVars, maintVars, cacheVars, domVars, assetVars, annotations, isLoading, nextId, created, removed, annError,
                 annResults>>

\* removeAnnotation(id), lines 344-347
removeAnnotation(id, ok) ==
  /\ annOps < MaxAnnOps
  /\ LET Keep(a) == a.id # id IN saveAnnotations(SelectSeq(annotations, Keep), ok)
  /\ removed' = removed \cup {id}
  /\ annCalls' = Append(annCalls, Call("remove", id, Nil, Nil, Nil, Nil))
  /\ UNCHANGED <<persistedAtStart, uiVars, statsVars, maintVars, cacheVars, domVars, assetVars, annotations, isLoading, nextId, created, annError, annResults>>

\* The ids a handler can hold: of an annotation that exists or has existed
KnownIds == Ids(StoredAtStart) \cup created

NextAnnotations ==
  \/ LoadDone
  \/ SaveDone
  \/ \E st \in ServiceTypes, it \in IconTypes, p \in Positions, ok \in BOOLEAN :
       addIconAnnotation(st, it, p, ok)
  \/ \E st \in ServiceTypes, t \in NoteTexts, p \in Positions, ok \in BOOLEAN :
       addNoteAnnotation(st, t, p, ok)
  \/ \E id \in KnownIds, t \in NoteTexts, ok \in BOOLEAN : updateNoteAnnotation(id, t, ok)
  \/ \E id \in KnownIds, ok \in BOOLEAN : removeAnnotation(id, ok)

\* ----------------------------------------------------- annotation claims
AnnSettled == annIO = <<>>

\* C10: once every create/update/remove call has completed without storage
\* errors (all issued after start-up finished), the in-memory collection equals
\* the persisted one, holds every annotation created and not removed, and holds
\* no removed annotation.
C10_CollectionReflectsEveryCall ==
  (AnnSettled /\ ~annError /\ ~earlyOp) =>
    /\ annotations = StoredAnnotations
    /\ (created \ removed) \subseteq Ids(annotations)
    /\ removed \cap Ids(annotations) = {}

\* C11: a call whose persistence failed has its promise rejected.
C11_SaveFailurePropagates ==
  \A i \in 1..Len(annResults) : ~annResults[i].ok => annResults[i].settled = "rejected"

\* An annotation has exactly the payload of its type
WellFormed(a) ==
  /\ a.type = "icon" => (a.iconType # Nil /\ a.noteText = Nil)
  /\ a.type = "note" => (a.noteText # Nil /\ a.iconType = Nil)

\* C12: every annotation of the collection, in memory and persisted, has exactly
\* one of iconType/noteText populated, the one of its type.
C12_OnePayloadPerType ==
  /\ \A i \in 1..Len(annotations) : WellFormed(annotations[i])
  /\ \A i \in 1..Len(StoredAnnotations) : WellFormed(StoredAnnotations[i])

\* C13: when a create call completes, its write having succeeded,
\* getAnnotationsForService(serviceType) includes a record with the type, payload,
\* position and service of the call, whose createdAt equals its updatedAt.
C13_CreatedRecordListed ==
  [][ ( /\ annIO # <<>>
        /\ Head(annIO).op = "save"
        /\ Head(annIO).ok
        /\ Len(annResults') = Len(annResults) + 1
        /\ annCalls[Len(annResults) + 1].name = "create" )
      => LET call == annCalls[Len(annResults) + 1]
             listed == ForService(annotations', call.serviceType)
         IN \E i \in 1..Len(listed) :
              /\ listed[i].id = call.id
              /\ listed[i].type = call.type
              /\ (IF call.type = "icon" THEN listed[i].iconType
                                        ELSE listed[i].noteText) = call.payload
              /\ listed[i].position = call.position
              /\ listed[i].serviceType = call.serviceType
              /\ listed[i].createdAt = listed[i].updatedAt
    ]_vars

\* C28: once every storage operation of the store has completed, the persisted
\* collection holds every annotation that was stored before start-up and has not
\* been removed, also when calls were issued before the initial load had finished.
C28_EarlyCallsKeepStored ==
  AnnSettled => (persistedAtStart \ removed) \subseteq Ids(StoredAnnotations)

\* ================================================= position anchoring
MaxAnnotations == 2
MaxPasses == 2
SnippetRadius == 20
ElementSnippetLength == 40

\* DOM nodes.  A text is a sequence of characters; ns is the namespace of an
\* element ("html", or "svg" for inline foreign content); marker is the
\* data-annotation-id of a marker span (ids start at 1) and 0 on any other node.
TextNode(text) ==
  [type |-> "text", ns |-> Nil, tag |-> Nil, text |-> text, kids |-> <<>>, marker |-> 0]

Element(ns, tag, kids) ==
  [type |-> "elem", ns |-> ns, tag |-> tag, text |-> <<>>, kids |-> kids, marker |-> 0]

\* createAnnotationMarker(doc, annotationId, emoji, type): a span of class
\* dcs-annotation holding the emoji
createAnnotationMarker(annotationId) ==
  [type |-> "elem", ns |-> "html", tag |-> "span", text |-> <<>>,
   kids |-> <<TextNode(<<"*">>)>>, marker |-> annotationId]

isMarker(n) == n.type = "elem" /\ n.marker # 0

\* A node is named by its address: the child indices leading to it from the
\* root element; NoNode is the null a lookup returns
NoNode == <<0>>

RECURSIVE NodeAt(_, _)
NodeAt(n, addr) ==
  IF addr = <<>> THEN n ELSE NodeAt(n.kids[Head(addr)], Tail(addr))

parentNode(addr) == SubSeq(addr, 1, Len(addr) - 1)

RECURSIVE SetKids(_, _, _)
SetKids(n, addr, kids) ==
  IF addr = <<>> THEN [n EXCEPT !.kids = kids]
  ELSE [n EXCEPT !.kids[Head(addr)] = SetKids(n.kids[Head(addr)], Tail(addr), kids)]

\* node.textContent
RECURSIVE textContent(_), TextOfKids(_)
textContent(n) == IF n.type = "text" THEN n.text ELSE TextOfKids(n.kids)

TextOfKids(kids) ==
  IF kids = <<>> THEN <<>> ELSE textContent(Head(kids)) \o TextOfKids(Tail(kids))

\* text.substring(start, end)
substring(text, start, end) == SubSeq(text, start + 1, end)

\* text.includes(snippet)
includes(text, snippet) ==
  \E i \in 0..Len(text) :
    /\ i + Len(snippet) <= Len(text)
    /\ SubSeq(text, i + 1, i + Len(snippet)) = snippet

Min(a, b) == IF a < b THEN a ELSE b
Max(a, b) == IF a > b THEN a ELSE b

\* getElementIndex(el): 1 + the preceding element siblings of the same nodeName
getElementIndex(root, addr) ==
  LET el == NodeAt(root, addr)
      siblings == NodeAt(root, parentNode(addr)).kids
  IN 1 + Cardinality({i \in 1..(addr[Len(addr)] - 1) :
           /\ siblings[i].type = "elem"
           /\ siblings[i].tag = el.tag
           /\ siblings[i].ns = el.ns})

\* getXPathForElement(element): one step `tag[index]` per element from the root
\* element down; the root element has no sibling element
getXPathForElement(root, addr) ==
  [k \in 1..(Len(addr) + 1) |->
     IF k = 1 THEN [name |-> root.tag, index |-> 1]
     ELSE [name |-> NodeAt(root, SubSeq(addr, 1, k - 1)).tag,
           index |-> getElementIndex(root, SubSeq(addr, 1, k - 1))]]

\* The children of an element an XPath step `name[index]` selects: in an HTML
\* document a name test without prefix matches elements of the HTML namespace
StepMatches(n, name) == n.type = "elem" /\ n.ns = "html" /\ n.tag = name

StepSelects(kids, step) ==
  {i \in 1..Len(kids) :
     /\ StepMatches(kids[i], step.name)
     /\ Cardinality({j \in 1..i : StepMatches(kids[j], step.name)}) = step.index}

\* doc.evaluate(xpath, doc, null, FIRST_ORDERED_NODE_TYPE).singleNodeValue, from
\* the element at addr on
RECURSIVE evaluate(_, _, _)
evaluate(root, addr, steps) ==
  IF steps = <<>> THEN addr
  ELSE LET hits == StepSelects(NodeAt(root, addr).kids, Head(steps))
       IN IF hits = {} THEN NoNode
          ELSE evaluate(root, Append(addr, CHOOSE i \in hits : TRUE), Tail(steps))

\* getElementByXPath(doc, xpath)
getElementByXPath(root, xpath) ==
  IF xpath = <<>> \/ ~(StepMatches(root, xpath[1].name) /\ xpath[1].index = 1)
    THEN NoNode
    ELSE evaluate(root, <<>>, Tail(xpath))

\* The text nodes below a node, in document order (the TreeWalker's order)
RECURSIVE TextNodes(_, _), TextNodesOfKids(_, _, _)
TextNodes(n, addr) ==
  IF n.type = "text" THEN <<addr>> ELSE TextNodesOfKids(n.kids, addr, 1)

TextNodesOfKids(kids, addr, i) ==
  IF i > Len(kids) THEN <<>>
  ELSE TextNodes(kids[i], Append(addr, i)) \o TextNodesOfKids(kids, addr, i + 1)

\* doc.body
body(root) ==
  LET bodies == {i \in 1..Len(root.kids) : root.kids[i].type = "elem" /\ root.kids[i].tag = "body"}
  IN <<CHOOSE i \in bodies : \A j \in bodies : i <= j>>

\* findTextInDocument(doc, textSnippet), lines 53-65
\* (first a variant that returns the last text node that matches)
findLastTextInDocument(root, textSnippet) ==
  LET nodes == TextNodes(NodeAt(root, body(root)), body(root))
      hits == {i \in 1..Len(nodes) : includes(NodeAt(root, nodes[i]).text, textSnippet)}
  IN IF hits = {} THEN NoNode ELSE nodes[CHOOSE i \in hits : \A j \in hits : i >= j]

findTextInDocument(root, textSnippet) ==
  LET nodes == TextNodes(NodeAt(root, body(root)), body(root))
      hits == {i \in 1..Len(nodes) : includes(NodeAt(root, nodes[i]).text, textSnippet)}
  IN IF hits = {} THEN NoNode ELSE nodes[CHOOSE i \in hits : \A j \in hits : i <= j]

\* AnnotationPosition
AnnotationPosition(xpath, offset, textSnippet) ==
  [xpath |-> xpath, offset |-> offset, textSnippet |-> textSnippet]

\* getPositionFromEvent(doc, event), lines 217-241: the caret range starts in the
\* text node at addr, at offset
getPositionFromEvent(root, addr, offset) ==
  LET text == NodeAt(root, addr).text
  IN AnnotationPosition(getXPathForElement(root, parentNode(addr)), offset,
       substring(text, Max(0, offset - SnippetRadius), Min(Len(text), offset + SnippetRadius)))

\* getPositionFromEvent(doc, event), lines 198-213: no caret range, the clicked
\* element is the target
getPositionFromTarget(root, addr) ==
  LET text == textContent(NodeAt(root, addr))
  IN AnnotationPosition(getXPathForElement(root, addr), 0,
       substring(text, 0, Min(ElementSnippetLength, Len(text))))

\* insertAnnotationMarker, lines 135-148: the children of the parent once the text
\* node at index is replaced by before-text, marker, after-text
\* (first a variant that loses the text after the offset)
splitTextNodeLosingRest(kids, index, position, marker) ==
  LET text == kids[index].text
      offset == Min(position.offset, Len(text))
  IN SubSeq(kids, 1, index - 1)
       \o <<TextNode(substring(text, 0, offset)), marker>>
       \o SubSeq(kids, index + 1, Len(kids))

splitTextNode(kids, index, position, marker) ==
  LET text == kids[index].text
      offset == Min(position.offset, Len(text))
      beforeText == substring(text, 0, offset)
      afterText == substring(text, offset, Len(text))
  IN SubSeq(kids, 1, index - 1)
       \o <<TextNode(beforeText), marker, TextNode(afterText)>>
       \o SubSeq(kids, index + 1, Len(kids))

\* insertAnnotationMarker(doc, position, marker), lines 111-160: the document
\* after the call, what it returned, and how the target was found
insertAnnotationMarker(root, position, marker) ==
  LET byPath == getElementByXPath(root, position.xpath)
      targetNode == IF byPath # NoNode THEN byPath
                    ELSE findTextInDocument(root, position.textSnippet)
      via == IF byPath # NoNode THEN "xpath"
             ELSE IF targetNode # NoNode THEN "snippet" ELSE "none"
  IN IF targetNode = NoNode
       THEN [dom |-> root, ok |-> FALSE, via |-> via, target |-> NoNode]
     ELSE IF NodeAt(root, targetNode).type = "text"
       THEN LET parent == parentNode(targetNode)
            IN [dom |-> SetKids(root, parent,
                          splitTextNode(NodeAt(root, parent).kids,
                                        targetNode[Len(targetNode)], position, marker)),
                ok |-> TRUE, via |-> via, target |-> targetNode]
     ELSE [dom |-> SetKids(root, targetNode, Append(NodeAt(root, targetNode).kids, marker)),
           ok |-> TRUE, via |-> via, target |-> targetNode]

\* removeAllAnnotationMarkers(doc): every .dcs-annotation element is removed
RECURSIVE removeAllAnnotationMarkers(_), RemoveFromKids(_)
removeAllAnnotationMarkers(n) ==
  IF n.type = "text" THEN n ELSE [n EXCEPT !.kids = RemoveFromKids(n.kids)]

RemoveFromKids(kids) ==
  IF kids = <<>> THEN <<>>
  ELSE IF isMarker(Head(kids)) THEN RemoveFromKids(Tail(kids))
  ELSE <<removeAllAnnotationMarkers(Head(kids))>> \o RemoveFromKids(Tail(kids))

\* annotations.forEach(...): one insertAnnotationMarker call per annotation, in
\* array order, each on the document the previous one left
\* (first a variant in which a failed insertion ends the pass)
RECURSIVE forEachUntilFailure(_, _, _, _)
forEachUntilFailure(root, annotations_, i, calls) ==
  IF i > Len(annotations_) THEN [dom |-> root, log |-> calls]
  ELSE LET a == annotations_[i]
           r == insertAnnotationMarker(root, a.position, createAnnotationMarker(a.id))
           call == [id |-> a.id, position |-> a.position, before |-> root,
                    after |-> r.dom, ok |-> r.ok, via |-> r.via, target |-> r.target]
       IN IF r.ok THEN forEachUntilFailure(r.dom, annotations_, i + 1, Append(calls, call))
                  ELSE [dom |-> root, log |-> Append(calls, call)]

RECURSIVE forEach(_, _, _, _)
forEach(root, annotations_, i, calls) ==
  IF i > Len(annotations_) THEN [dom |-> root, log |-> calls]
  ELSE LET a == annotations_[i]
           r == insertAnnotationMarker(root, a.position, createAnnotationMarker(a.id))
       IN forEach(r.dom, annotations_, i + 1,
            Append(calls, [id |-> a.id, position |-> a.position, before |-> root,
                           after |-> r.dom, ok |-> r.ok, via |-> r.via,
                           target |-> r.target]))

\* The text of a document with the markers left out
RECURSIVE plainText(_), PlainTextOfKids(_)
plainText(n) ==
  IF n.type = "text" THEN n.text
  ELSE IF isMarker(n) THEN <<>>
  ELSE PlainTextOfKids(n.kids)

PlainTextOfKids(kids) ==
  IF kids = <<>> THEN <<>> ELSE plainText(Head(kids)) \o PlainTextOfKids(Tail(kids))

\* Where the markers of a document are: how much text precedes each
RECURSIVE MarkerPlaces(_, _), MarkerPlacesOfKids(_, _, _)
MarkerPlaces(n, base) ==
  IF n.type = "text" THEN {}
  ELSE IF isMarker(n) THEN {[id |-> n.marker, at |-> base]}
  ELSE MarkerPlacesOfKids(n.kids, 1, base)

MarkerPlacesOfKids(kids, i, base) ==
  IF i > Len(kids) THEN {}
  ELSE MarkerPlaces(kids[i], base)
         \cup MarkerPlacesOfKids(kids, i + 1, base + Len(plainText(kids[i])))

\* ------------------------------------------------------------ documents
Html(kids) == Element("html", "html", <<Element("html", "body", kids)>>)
P(kids) == Element("html", "p", kids)
Div(kids) == Element("html", "div", kids)

\* A page, the page after its paragraphs were unwrapped upstream, and the page
\* after its text was rewritten as well, now with inline foreign content
PageOriginal ==
  Html(<<P(<<TextNode(<<"a", "b">>)>>), P(<<TextNode(<<"c", "d">>)>>)>>)

PageUnwrapped ==
  Html(<<Div(<<TextNode(<<"c", "d">>), TextNode(<<"a", "b">>),
               TextNode(<<"c", "d">>)>>)>>)

PageRewritten ==
  Html(<<Div(<<TextNode(<<"x">>)>>),
         Element("svg", "svg", <<Element("svg", "text", <<TextNode(<<"a">>)>>)>>)>>)

Documents == {PageOriginal, PageUnwrapped, PageRewritten}

\* --------------------------------------------------------------- actions
InitDom ==
  /\ dom \in Documents
  /\ injected = <<>>
  /\ log = <<>>
  /\ rendered = <<>>
  /\ passes = 0

\* The viewer loads a document instance (a reload, or the page as it is upstream
\* now); the annotations of the service stay
LoadDocument(d) ==
  /\ dom' = d
  /\ log' = <<>>
  /\ rendered' = <<>>
  /\ passes' = 0
  /\ UNCHANGED <<uiVars, statsVars, maintVars, cacheVars, annVars, assetVars, injected>>

\* A long press on the document as loaded, whose caret range starts in the text
\* node at addr: the position is captured and an annotation with it joins the set
LongPress(addr, offset) ==
  /\ passes = 0
  /\ Len(injected) < MaxAnnotations
  /\ injected' = Append(injected,
       [id |-> Len(injected) + 1, captured |-> "caret",
        position |-> getPositionFromEvent(dom, addr, offset)])
  /\ rendered' = <<>>
  /\ UNCHANGED <<uiVars, statsVars, maintVars, cacheVars, annVars, assetVars, dom, log, passes>>

\* A click for which the platform gives no caret range: the clicked element is
\* the target
ClickElement(addr) ==
  /\ passes = 0
  /\ Len(injected) < MaxAnnotations
  /\ injected' = Append(injected,
       [id |-> Len(injected) + 1, captured |-> "target",
        position |-> getPositionFromTarget(dom, addr)])
  /\ rendered' = <<>>
  /\ UNCHANGED <<uiVars, statsVars, maintVars, cacheVars, annVars, assetVars, dom, log, passes>>

\* injectAnnotations / generateAnnotationInjectionScript: the markers are removed
\* and one is inserted per annotation
RenderPass ==
  /\ passes < MaxPasses
  /\ LET pass == forEach(removeAllAnnotationMarkers(dom), injected, 1, <<>>)
     IN /\ dom' = pass.dom
        /\ log' = pass.log
        /\ rendered' = Append(rendered, MarkerPlaces(pass.dom, 0))
  /\ passes' = passes + 1
  /\ UNCHANGED <<uiVars, statsVars, maintVars, cacheVars, annVars, assetVars, injected>>

\* The text nodes and the elements of the body of the document shown
TextNodesShown == TextNodes(NodeAt(dom, body(dom)), body(dom))

RECURSIVE Elements(_, _), ElementsOfKids(_, _, _)
Elements(n, addr) ==
  IF n.type = "text" THEN {} ELSE {addr} \cup ElementsOfKids(n.kids, addr, 1)

ElementsOfKids(kids, addr, i) ==
  IF i > Len(kids) THEN {}
  ELSE Elements(kids[i], Append(addr, i)) \cup ElementsOfKids(kids, addr, i + 1)

NextDom ==
  \/ \E d \in Documents : LoadDocument(d)
  \/ \E i \in 1..Len(TextNodesShown) :
       \E offset \in 0..Len(NodeAt(dom, TextNodesShown[i]).text) :
         LongPress(TextNodesShown[i], offset)
  \/ \E addr \in Elements(NodeAt(dom, body(dom)), body(dom)) \ {body(dom)} :
       ClickElement(addr)
  \/ RenderPass

\* ------------------------------------------------------ anchoring claims
\* Document order of node addresses (an ancestor precedes its descendants)
RECURSIVE Precedes(_, _)
Precedes(a, b) ==
  IF a = <<>> THEN b # <<>>
  ELSE IF b = <<>> THEN FALSE
  ELSE \/ Head(a) < Head(b)
       \/ Head(a) = Head(b) /\ Precedes(Tail(a), Tail(b))

\* The text nodes of the body of a document that contain a snippet
TextNodesWith(root, textSnippet) ==
  LET nodes == TextNodes(NodeAt(root, body(root)), body(root))
  IN {nodes[i] : i \in {j \in 1..Len(nodes) : includes(NodeAt(root, nodes[j]).text, textSnippet)}}

\* The ids of the markers anywhere in a document
RECURSIVE MarkerIds(_), MarkerIdsOfKids(_)
MarkerIds(n) ==
  IF n.type = "text" THEN {}
  ELSE (IF isMarker(n) THEN {n.marker} ELSE {}) \cup MarkerIdsOfKids(n.kids)

MarkerIdsOfKids(kids) ==
  IF kids = <<>> THEN {} ELSE MarkerIds(Head(kids)) \cup MarkerIdsOfKids(Tail(kids))

\* C14: a position captured at a caret position in a text node resolves, against
\* the same unmodified document, through its structural path (not the snippet).
C14_CaptureResolvesByPath ==
  [][ ( /\ Len(injected') = Len(injected) + 1
        /\ injected'[Len(injected')].captured = "caret" )
      => LET a == injected'[Len(injected')]
             r == insertAnnotationMarker(dom, a.position, createAnnotationMarker(a.id))
         IN r.ok /\ r.via = "xpath"
    ]_vars

\* How much text of the document precedes the node at addr
RECURSIVE TextBefore(_, _)
TextBefore(n, addr) ==
  IF addr = <<>> THEN 0
  ELSE Len(PlainTextOfKids(SubSeq(n.kids, 1, Head(addr) - 1)))
         + TextBefore(n.kids[Head(addr)], Tail(addr))

\* C27: a position captured at offset k of a text node is rendered, on the same
\* unmodified document, by a marker at offset k of that text node: as much text of
\* the document precedes the marker as precedes the caret.
C27_MarkerAtCapturedOffset ==
  [][ ( /\ Len(injected') = Len(injected) + 1
        /\ injected'[Len(injected')].captured = "caret" )
      => LET a == injected'[Len(injected')]
             r == insertAnnotationMarker(dom, a.position, createAnnotationMarker(a.id))
         IN \A i \in 1..Len(TextNodesShown) :
              \A k \in 0..Len(NodeAt(dom, TextNodesShown[i]).text) :
                getPositionFromEvent(dom, TextNodesShown[i], k) = a.position =>
                  MarkerPlaces(r.dom, 0) =
                    {[id |-> a.id, at |-> TextBefore(dom, TextNodesShown[i]) + k]}
    ]_vars

\* C15: when the structural path selects no node and some text node of the body
\* contains the snippet, the target is found by the snippet and is the first such
\* text node in document order; the snippet is used only when the path selected
\* nothing.
C15_FallbackFindsFirstTextNode ==
  \A i \in 1..Len(log) :
    LET call == log[i]
        byPath == getElementByXPath(call.before, call.position.xpath)
        holders == TextNodesWith(call.before, call.position.textSnippet)
    IN /\ (byPath = NoNode /\ holders # {}) =>
            /\ call.ok
            /\ call.via = "snippet"
            /\ call.target \in holders
            /\ \A t \in holders : t = call.target \/ Precedes(call.target, t)
       /\ call.via = "snippet" => byPath = NoNode

C15_Witness ==
  \E i \in 1..Len(log) :
    /\ log[i].via = "snippet"
    /\ Cardinality(TextNodesWith(log[i].before, log[i].position.textSnippet)) > 1

\* C16: an annotation whose path and snippet both fail ends in not-found and
\* leaves the document as it was, and the pass goes on: every annotation of the
\* set is processed, and each one that resolves gets its marker.
C16_UnresolvedAnnotationSkipped ==
  log # <<>> =>
    /\ Len(log) = Len(injected)
    /\ \A i \in 1..Len(log) :
         /\ log[i].id = injected[i].id
         /\ log[i].via = "none" => (~log[i].ok /\ log[i].after = log[i].before)
         /\ log[i].via # "none" =>
              (log[i].ok /\ log[i].id \in MarkerIds(log[i].after) /\ log[i].id \in MarkerIds(dom))

C16_Witness ==
  \E i, j \in 1..Len(log) :
    /\ i < j
    /\ log[i].via = "none"
    /\ log[j].ok
    /\ log[j].id \in MarkerIds(dom)

\* C17: an insertion leaves the text of the document (markers left out) as it was;
\* a text node target is replaced in place by before-text, marker, after-text, the
\* offset clamped to the length of the text; an element target gets the marker as
\* its last child; every other node stays where it was.
C17_InsertionKeepsContent ==
  \A i \in 1..Len(log) :
    LET call == log[i]
        marker == createAnnotationMarker(call.id)
    IN /\ plainText(call.after) = plainText(call.before)
       /\ ~call.ok => call.after = call.before
       /\ (call.ok /\ NodeAt(call.before, call.target).type = "text") =>
            LET parent == parentNode(call.target)
                index == call.target[Len(call.target)]
                was == NodeAt(call.before, parent).kids
                is == NodeAt(call.after, parent).kids
                text == was[index].text
                offset == IF call.position.offset < Len(text)
                            THEN call.position.offset ELSE Len(text)
            IN /\ Len(is) = Len(was) + 2
               /\ is[index] = TextNode(SubSeq(text, 1, offset))
               /\ is[index + 1] = marker
               /\ is[index + 2] = TextNode(SubSeq(text, offset + 1, Len(text)))
               /\ \A j \in 1..Len(was) :
                    /\ j < index => is[j] = was[j]
                    /\ j > index => is[j + 2] = was[j]
               /\ call.after = SetKids(call.before, parent, is)
       /\ (call.ok /\ NodeAt(call.before, call.target).type = "elem") =>
            /\ NodeAt(call.after, call.target).kids
                 = Append(NodeAt(call.before, call.target).kids, marker)
            /\ call.after = SetKids(call.before, call.target,
                                    NodeAt(call.after, call.target).kids)

C17_Witness ==
  \E i \in 1..Len(log) :
    /\ log[i].ok
    /\ NodeAt(log[i].before, log[i].target).type = "text"
    /\ log[i].position.offset > 0
    /\ log[i].position.offset < Len(NodeAt(log[i].before, log[i].target).text)
    /\ log[i].target[Len(log[i].target)] > 1
    /\ Len(NodeAt(log[i].before, parentNode(log[i].target)).kids) > log[i].target[Len(log[i].target)]

\* C18: a second render pass over the same document with the same annotations
\* leaves the same markers at the same places as the first.
C18_RenderPassIdempotent ==
  Len(rendered) >= 2 => rendered[2] = rendered[1]

\* ======================================================== asset caching
MaxAssetCalls == 3
MaxConcurrent == 2

\* Asset urls, as sequences of character codes
Urls == {<<1, 1>>, <<1, 2>>}

\* What a call returns: a JavaScript value with its typeof
JsString(s) == [typeof |-> "string", value |-> s]
JsObject(o) == [typeof |-> "object", value |-> o]

\* hashUrl(url), lines 119-128: hash = ((hash << 5) - hash) + char over the
\* characters (the 32-bit wrap is not reached by the short urls used here)
RECURSIVE hashFrom(_, _)
hashFrom(hash, chars) ==
  IF chars = <<>> THEN hash
  ELSE hashFrom(((hash * 32) - hash) + Head(chars), Tail(chars))

hashUrl(url) == LET hash == hashFrom(0, url) IN IF hash < 0 THEN -hash ELSE hash

\* getAssetKey(url): `${CACHE_PREFIX}asset:${hashUrl(url)}`
getAssetKey(url) == <<"dcs:cache:", "asset:", hashUrl(url)>>

AssetKeys == {getAssetKey(url) : url \in Urls}

\* cacheAsset, lines 535-537: `${CACHE_DIR}asset_${hashUrl(url)}.${extension}`
assetFilePath(url) == <<"CACHE_DIR", "asset_", hashUrl(url)>>

\* cacheAsset(url) is called by caller c, lines 522-530, up to its first
\* suspension: getCache looks in memory, then asks AsyncStorage.  st holds the
\* per-caller state and the job queue.
cacheAssetCalled(st, c, url) ==
  LET key == getAssetKey(url)
      entry == getFromMemory(key)
      called == [st EXCEPT !.kind[c] = "cacheAsset", !.ckey[c] = key, !.assetUrl[c] = url]
  IN IF entry # NoEntry
       THEN [called EXCEPT !.cached[c] = entry,
                           !.result[c] = JsObject(entry),
                           !.pc[c] = "resume",
                           !.microtasks = Append(st.microtasks, Job("resume", c))]
       ELSE [called EXCEPT !.readVal[c] = asyncStorage[key],
                           !.pc[c] = "assetGetItem"]

CallState ==
  [pc |-> pc, kind |-> kind, ckey |-> ckey, cached |-> cached, readVal |-> readVal,
   result |-> result, microtasks |-> microtasks, assetUrl |-> assetUrl]

SetCallState(st) ==
  /\ pc' = st.pc
  /\ kind' = st.kind
  /\ ckey' = st.ckey
  /\ cached' = st.cached
  /\ readVal' = st.readVal
  /\ result' = st.result
  /\ microtasks' = st.microtasks
  /\ assetUrl' = st.assetUrl

\* batch.map(url => cacheAsset(url)), line 581: the calls are made one after the
\* other in the same turn, the i-th by the i-th caller of the batch
RECURSIVE cacheAssetEach(_, _, _)
cacheAssetEach(st, callers, urls) ==
  IF urls = <<>> THEN st
  ELSE cacheAssetEach(cacheAssetCalled(st, Head(callers), Head(urls)),
                      Tail(callers), Tail(urls))

\* The callers that are free, in order
RECURSIVE IdleFrom(_)
IdleFrom(c) ==
  IF c > NumCallers THEN <<>>
  ELSE (IF pc[c] = "idle" THEN <<c>> ELSE <<>>) \o IdleFrom(c + 1)

\* assetUrls.slice(i, i + maxConcurrent), line 579
\* (first a variant that takes every url left at once)
NextBatchUnbounded(urls, maxConcurrent) == urls

NextBatch(urls, maxConcurrent) == SubSeq(urls, 1, Min(maxConcurrent, Len(urls)))

AfterBatch(urls, maxConcurrent) == SubSeq(urls, Min(maxConcurrent, Len(urls)) + 1, Len(urls))

\* The for loop of cacheHtmlAssets, lines 578-582, starts a batch
startBatch(urls, maxConcurrent, idle) ==
  LET batch == NextBatch(urls, maxConcurrent)
      callers == SubSeq(idle, 1, Len(batch))
  IN /\ Len(idle) >= Len(batch)
     /\ assetCalls + Len(batch) <= MaxAssetCalls
     /\ assetCalls' = assetCalls + Len(batch)
     /\ SetCallState(cacheAssetEach(CallState, callers, batch))
     /\ htmlBatch' = [c \in Callers |->
          IF \E i \in 1..Len(batch) : callers[i] = c
            THEN batch[CHOOSE i \in 1..Len(batch) : callers[i] = c]
            ELSE <<>>]
     /\ htmlRest' = AfterBatch(urls, maxConcurrent)
     /\ htmlPc' = "batch"

\* --------------------------------------------------------------- actions
InitAssets ==
  /\ now = 0
  /\ useFileSystem = [k \in AssetKeys |-> FALSE]
  /\ memoryCache = [k \in AssetKeys |-> NoEntry]
  /\ asyncStorage = [k \in AssetKeys |-> NoItem]
  /\ fileSystem = [k \in AssetKeys |-> NoItem]
  /\ microtasks = <<>>
  /\ pc = [c \in Callers |-> "idle"]
  /\ kind = [c \in Callers |-> Nil]
  /\ ckey = [c \in Callers |-> <<>>]
  /\ cached = [c \in Callers |-> NoEntry]
  /\ readVal = [c \in Callers |-> NoItem]
  /\ fetched = [c \in Callers |-> Nil]
  /\ result = [c \in Callers |-> JsString(<<>>)]
  /\ bgState = [c \in Callers |-> "none"]
  /\ opsStarted = 0
  /\ persistSkipped = FALSE
  /\ retryDue = FALSE
  /\ owes = [c \in Callers |-> FALSE]
  /\ clean = [c \in Callers |-> FALSE]
  /\ assetUrl = [c \in Callers |-> <<>>]
  /\ downloadsStarted = [u \in Urls |-> 0]
  /\ downloadsFailed = [u \in Urls |-> 0]
  /\ downloaded = [u \in Urls |-> <<>>]
  /\ assetCalls = 0
  /\ htmlPc = "idle"
  /\ htmlRest = <<>>
  /\ htmlBatch = [c \in Callers |-> <<>>]
  /\ htmlConcurrent = 1
  /\ assetMap = [u \in Urls |-> JsString(<<>>)]

\* cacheAsset(url), lines 522-530, called on its own (as the audio player does
\* when it found no cached file)
StartCacheAsset(c, url) ==
  /\ microtasks = <<>>
  /\ pc[c] = "idle"
  /\ assetCalls < MaxAssetCalls
  /\ assetCalls' = assetCalls + 1
  /\ SetCallState(cacheAssetCalled(CallState, c, url))
  /\ UNCHANGED <<uiVars, statsVars, maintVars, annVars, domVars, now, useFileSystem, memoryCache, asyncStorage, fileSystem,
                 fetched, bgState, opsStarted, persistSkipped, retryDue, owes, clean,
                 downloadsStarted, downloadsFailed, downloaded,
                 htmlPc, htmlRest, htmlBatch, htmlConcurrent, assetMap>>

\* cacheAsset, lines 526-534: AsyncStorage.getItem delivers; an entry found is
\* promoted and returned, otherwise the download starts
AssetGetItemDone(c) ==
  /\ microtasks = <<>>
  /\ pc[c] = "assetGetItem"
  /\ LET entry == getFromAsyncStorage(readVal[c]) IN
       /\ cached' = [cached EXCEPT ![c] = entry]
       /\ Promote(c, entry)
       /\ IF entry # NoEntry
            THEN /\ Return(c, JsObject(entry), <<>>)
                 /\ downloadsStarted' = downloadsStarted
            ELSE /\ pc' = [pc EXCEPT ![c] = "downloadAsync"]
                 /\ downloadsStarted' =
                      [downloadsStarted EXCEPT ![assetUrl[c]] = @ + 1]
                 /\ UNCHANGED <<result, microtasks>>
  /\ UNCHANGED <<uiVars, statsVars, maintVars, annVars, domVars, now, useFileSystem, asyncStorage, fileSystem, kind, ckey,
                 readVal, fetched, bgState, opsStarted, persistSkipped, retryDue, owes,
                 assetUrl, downloadsFailed, downloaded, assetCalls,
                 htmlPc, htmlRest, htmlBatch, htmlConcurrent, assetMap>>

\* cacheAsset, lines 540-554: FileSystem.downloadAsync settles (succeeded: with
\* status 200); on success the path is stored with setCache
DownloadDone(c, succeeded, ok) ==
  /\ microtasks = <<>>
  /\ pc[c] = "downloadAsync"
  /\ IF succeeded
       THEN /\ setCache(c, ckey[c], assetFilePath(assetUrl[c]), Ttl, ok)
            /\ downloaded' = [downloaded EXCEPT ![assetUrl[c]] =
                 IF @ = <<>> THEN assetFilePath(assetUrl[c]) ELSE @]
            /\ pc' = [pc EXCEPT ![c] = "assetSetCache"]
            /\ UNCHANGED <<result, microtasks, downloadsFailed>>
       ELSE /\ Return(c, JsString(assetUrl[c]), <<>>)
            /\ downloadsFailed' = [downloadsFailed EXCEPT ![assetUrl[c]] = @ + 1]
            /\ UNCHANGED <<memoryCache, asyncStorage, fileSystem, persistSkipped,
                           retryDue, owes, clean, downloaded>>
  /\ UNCHANGED <<uiVars, statsVars, maintVars, annVars, domVars, now, useFileSystem, kind, ckey, cached, readVal, fetched,
                 bgState, opsStarted, assetUrl, downloadsStarted, assetCalls,
                 htmlPc, htmlRest, htmlBatch, htmlConcurrent, assetMap>>

\* cacheAsset, lines 544-546: the awaited setCache completes, the path is returned
AssetWriteDone(c) ==
  /\ microtasks = <<>>
  /\ pc[c] = "assetSetCache"
  /\ Return(c, JsString(assetFilePath(assetUrl[c])), <<>>)
  /\ UNCHANGED <<uiVars, statsVars, maintVars, annVars, domVars, now, useFileSystem, memoryCache, asyncStorage, fileSystem,
                 kind, ckey, cached, readVal, fetched, bgState, opsStarted,
                 persistSkipped, retryDue, owes, clean, assetVars>>

\* The caller of a cacheAsset call made on its own is ready for its next call
AssetCallerDone(c) ==
  /\ microtasks = <<>>
  /\ pc[c] = "done"
  /\ htmlBatch[c] = <<>>
  /\ pc' = [pc EXCEPT ![c] = "idle"]
  /\ kind' = [kind EXCEPT ![c] = Nil]
  /\ cached' = [cached EXCEPT ![c] = NoEntry]
  /\ readVal' = [readVal EXCEPT ![c] = NoItem]
  /\ UNCHANGED <<uiVars, statsVars, maintVars, annVars, domVars, now, useFileSystem, memoryCache, asyncStorage, fileSystem,
                 microtasks, ckey, fetched, result, bgState, opsStarted,
                 persistSkipped, retryDue, owes, clean, assetVars>>

\* cacheHtmlAssets(html, baseUrl, maxConcurrent), lines 562-582: assetUrls is what
\* extractAssetUrls found (no url twice); the first batch is started
StartCacheHtmlAssets(assetUrls, maxConcurrent) ==
  /\ microtasks = <<>>
  /\ htmlPc = "idle"
  /\ assetUrls # <<>>
  /\ htmlConcurrent' = maxConcurrent
  /\ assetMap' = [u \in Urls |-> JsString(<<>>)]
  /\ startBatch(assetUrls, maxConcurrent, IdleFrom(1))
  /\ UNCHANGED <<uiVars, statsVars, maintVars, annVars, domVars, now, useFileSystem, memoryCache, asyncStorage, fileSystem,
                 fetched, bgState, opsStarted, persistSkipped, retryDue, owes, clean,
                 downloadsStarted, downloadsFailed, downloaded>>

\* cacheHtmlAssets, lines 583-595: Promise.allSettled of the batch resolves; the
\* results are put in the map and the next batch, if any, is started
BatchSettled ==
  /\ microtasks = <<>>
  /\ htmlPc = "batch"
  /\ \A c \in Callers : htmlBatch[c] # <<>> => pc[c] = "done"
  /\ assetMap' = [u \in Urls |->
       IF \E c \in Callers : htmlBatch[c] = u
         THEN result[CHOOSE c \in Callers : htmlBatch[c] = u]
         ELSE assetMap[u]]
  /\ LET released == [CallState EXCEPT
           !.pc = [c \in Callers |-> IF htmlBatch[c] # <<>> THEN "idle" ELSE pc[c]],
           !.cached = [c \in Callers |-> IF htmlBatch[c] # <<>> THEN NoEntry ELSE cached[c]]]
         idle == LET free(c) == released.pc[c] = "idle"
                 IN SelectSeq([c \in 1..NumCallers |-> c], free)
     IN IF htmlRest = <<>>
          THEN /\ SetCallState(released)
               /\ htmlPc' = "idle"
               /\ htmlBatch' = [c \in Callers |-> <<>>]
               /\ UNCHANGED <<htmlRest, assetCalls>>
          ELSE LET batch == NextBatch(htmlRest, htmlConcurrent)
                   callers == SubSeq(idle, 1, Len(batch))
               IN /\ Len(idle) >= Len(batch)
                  /\ assetCalls + Len(batch) <= MaxAssetCalls
                  /\ assetCalls' = assetCalls + Len(batch)
                  /\ SetCallState(cacheAssetEach(released, callers, batch))
                  /\ htmlBatch' = [c \in Callers |->
                       IF \E i \in 1..Len(batch) : callers[i] = c
                         THEN batch[CHOOSE i \in 1..Len(batch) : callers[i] = c]
                         ELSE <<>>]
                  /\ htmlRest' = AfterBatch(htmlRest, htmlConcurrent)
                  /\ htmlPc' = "batch"
  /\ UNCHANGED <<uiVars, statsVars, maintVars, annVars, domVars, now, useFileSystem, memoryCache, asyncStorage, fileSystem,
                 fetched, bgState, opsStarted, persistSkipped, retryDue, owes, clean,
                 downloadsStarted, downloadsFailed, downloaded, htmlConcurrent>>

\* What extractAssetUrls can return: urls in document order, none twice
UrlLists ==
  {<<u>> : u \in Urls} \cup {<<u, v>> : <<u, v>> \in {p \in Urls \X Urls : p[1] # p[2]}}

NextAssets ==
  \/ \E c \in Callers, url \in Urls : StartCacheAsset(c, url)
  \/ \E c \in Callers : AssetGetItemDone(c)
  \/ \E c \in Callers, succeeded \in BOOLEAN, ok \in BOOLEAN : DownloadDone(c, succeeded, ok)
  \/ \E c \in Callers : AssetWriteDone(c)
  \/ \E c \in Callers : Resume(c)
  \/ \E c \in Callers : AssetCallerDone(c)
  \/ \E assetUrls \in UrlLists, maxConcurrent \in 1..MaxConcurrent :
       StartCacheHtmlAssets(assetUrls, maxConcurrent)
  \/ BatchSettled

\* ---------------------------------------------------------- asset claims
\* C19: a cacheAsset call that finds a mapping for its url starts no download and
\* returns the local path string the original download of the url returned.
C19_CachedAssetPathReturned ==
  \A c \in Callers :
    (kind[c] = "cacheAsset" /\ cached[c] # NoEntry /\ pc[c] \in {"resume", "done"}) =>
      /\ result[c].typeof = "string"
      /\ result[c].value = downloaded[assetUrl[c]]

\* C20: of the downloads of a url that were started, at most one has not failed:
\* none starts while another is under way or after one has succeeded.
C20_DownloadedAtMostOnce ==
  \A u \in Urls : downloadsStarted[u] - downloadsFailed[u] <= 1

\* The downloads of the running cacheHtmlAssets call that are in flight
HtmlDownloadsInFlight ==
  {c \in Callers : htmlBatch[c] # <<>> /\ pc[c] = "downloadAsync"}

\* C21: while cacheHtmlAssets runs, at most maxConcurrent of its downloads are in
\* flight, and the cacheAsset calls of a batch are made only when every call of
\* the batch before has settled.
C21_BatchesBounded ==
  [][/\ htmlPc' = "batch" => Cardinality(HtmlDownloadsInFlight') <= htmlConcurrent'
     /\ (htmlPc = "batch" /\ htmlBatch' # htmlBatch) =>
          \A c \in Callers : htmlBatch[c] # <<>> => pc[c] = "done"]_vars

\* A second batch is downloading after the first one has settled
C21_Witness ==
  /\ htmlPc = "batch"
  /\ htmlRest = <<>>
  /\ HtmlDownloadsInFlight # {}
  /\ \E u \in Urls :
       /\ \A c \in Callers : htmlBatch[c] # u
       /\ assetMap[u] # JsString(<<>>)
       /\ downloadsStarted[u] > 0

\* ==================================================== cache maintenance
\* removeCache, clearCache and the failure paths of getCache and setCache
\* (src/lib/cache.ts, lines 166-357)

\* One key kept in AsyncStorage and one kept in the cache directory
StoreKey == "k1"
FileKey == "k2"
MaintKeys == {StoreKey, FileKey}

\* A cache file cut short: fewer than three lines
Truncated == <<0>>

\* What getCache(key, useFileSystem[key]) returns when it runs now, undisturbed,
\* with its reads succeeding (lines 244-273)
getCacheNow(key) ==
  IF getFromMemory(key) # NoEntry THEN getFromMemory(key) ELSE Persisted(key)

\* The caller c alone has touched the cache since its call started
Alone(c) == clean' = [x \in Callers |-> x = c]

\* memoryCache.delete(key), line 306
memoryDelete(mem, key) == [mem EXCEPT ![key] = NoEntry]

\* removeCache / clearCache return: the promise resolves, the keys are deleted
Completed(c, keys) ==
  /\ Return(c, "void", <<>>)
  /\ deleted' = [k \in MaintKeys |-> deleted[k] \/ k \in keys]

InitMaint ==
  /\ now = 0
  /\ useFileSystem = [k \in MaintKeys |-> k = FileKey]
  /\ memoryCache = [k \in MaintKeys |-> NoEntry]
  /\ \E item \in {NoItem, JSONstringify(CacheEntry("A", 0, Ttl, StoreKey)), Unparsable} :
       asyncStorage = [k \in MaintKeys |-> IF k = StoreKey THEN item ELSE NoItem]
  /\ \E file \in {NoItem, FileContent(0, Ttl, "A"), Truncated} :
       fileSystem = [k \in MaintKeys |-> IF k = FileKey THEN file ELSE NoItem]
  /\ microtasks = <<>>
  /\ pc = [c \in Callers |-> "idle"]
  /\ kind = [c \in Callers |-> Nil]
  /\ ckey = [c \in Callers |-> StoreKey]
  /\ cached = [c \in Callers |-> NoEntry]
  /\ readVal = [c \in Callers |-> NoItem]
  /\ fetched = [c \in Callers |-> Nil]
  /\ result = [c \in Callers |-> Nil]
  /\ bgState = [c \in Callers |-> "none"]
  /\ opsStarted = 0
  /\ persistSkipped = FALSE
  /\ retryDue = FALSE
  /\ owes = [c \in Callers |-> FALSE]
  /\ clean = [c \in Callers |-> FALSE]
  /\ setData = [c \in Callers |-> Nil]
  /\ deleted = [k \in MaintKeys |-> FALSE]

\* getFromAsyncStorage, lines 171-174, and getFromFileSystem, lines 219-222: the
\* read in flight rejects, the catch block returns null; getCache goes on to its
\* miss (line 271).  (First a variant that lets the rejection through.)
ReadRejectsPropagates(c) ==
  /\ microtasks = <<>>
  /\ pc[c] \in {"getItem", "getInfoAsync", "readAsString"}
  /\ Return(c, "rejected", <<>>)
  /\ UNCHANGED <<uiVars, maintVars, statsVars, annVars, domVars, assetVars, now, useFileSystem,
                 memoryCache, asyncStorage, fileSystem, kind, ckey, cached, readVal,
                 fetched, bgState, opsStarted, persistSkipped, retryDue, owes, clean>>

ReadRejects(c) ==
  /\ microtasks = <<>>
  /\ pc[c] \in {"getItem", "getInfoAsync", "readAsString"}
  /\ cached' = [cached EXCEPT ![c] = NoEntry]
  /\ AfterGetCache(c, kind[c], NoEntry)
  /\ UNCHANGED <<uiVars, statsVars, maintVars, annVars, domVars, assetVars, now, useFileSystem, memoryCache,
                 asyncStorage, fileSystem, kind, ckey, readVal, fetched, opsStarted,
                 persistSkipped, retryDue, owes, clean>>

\* removeCache(key), lines 304-310, up to its first await: the memory entry is
\* deleted and AsyncStorage.removeItem is issued (ok: whether it succeeds)
StartRemoveCache(c, k, ok) ==
  /\ microtasks = <<>>
  /\ pc[c] = "idle"
  /\ opsStarted < MaxOps
  /\ opsStarted' = opsStarted + 1
  /\ kind' = [kind EXCEPT ![c] = "removeCache"]
  /\ ckey' = [ckey EXCEPT ![c] = k]
  /\ memoryCache' = memoryDelete(memoryCache, k)
  /\ asyncStorage' = IF ok THEN [asyncStorage EXCEPT ![k] = NoItem] ELSE asyncStorage
  /\ pc' = [pc EXCEPT ![c] = "removeItem"]
  /\ Alone(c)
  /\ UNCHANGED <<uiVars, statsVars, maintVars, annVars, domVars, assetVars, now, useFileSystem, fileSystem,
                 microtasks, cached, readVal, fetched, result, bgState,
                 persistSkipped, retryDue, owes>>

\* removeCache, lines 309-318: removeItem has settled (a rejection is caught and
\* logged); FileSystem.getInfoAsync is issued
RemoveItemDone(c) ==
  /\ microtasks = <<>>
  /\ pc[c] = "removeItem"
  /\ readVal' = [readVal EXCEPT ![c] = fileSystem[ckey[c]]]
  /\ pc' = [pc EXCEPT ![c] = "removeGetInfo"]
  /\ UNCHANGED <<uiVars, statsVars, maintVars, annVars, domVars, assetVars, now, useFileSystem, memoryCache,
                 asyncStorage, fileSystem, microtasks, kind, ckey, cached, fetched,
                 result, bgState, opsStarted, persistSkipped, retryDue, owes, clean>>

\* removeCache, lines 318-326: getInfoAsync has settled (ok: resolved); for a file
\* that exists FileSystem.deleteAsync is issued (okDelete: whether it succeeds)
RemoveGetInfoDone(c, ok, okDelete) ==
  /\ microtasks = <<>>
  /\ pc[c] = "removeGetInfo"
  /\ IF ok /\ readVal[c] # NoItem
       THEN /\ fileSystem' = IF okDelete THEN [fileSystem EXCEPT ![ckey[c]] = NoItem]
                                         ELSE fileSystem
            /\ pc' = [pc EXCEPT ![c] = "deleteAsync"]
            /\ Alone(c)
            /\ UNCHANGED <<result, microtasks, deleted>>
       ELSE /\ Completed(c, {ckey[c]})
            /\ UNCHANGED <<fileSystem, clean>>
  /\ UNCHANGED <<uiVars, statsVars, setData, annVars, domVars, assetVars, now, useFileSystem, memoryCache,
                 asyncStorage, kind, ckey, cached, readVal, fetched, bgState,
                 opsStarted, persistSkipped, retryDue, owes>>

\* removeCache, lines 320-326: deleteAsync has settled (a rejection is caught and
\* logged); removeCache returns
RemoveDeleteDone(c) ==
  /\ microtasks = <<>>
  /\ pc[c] = "deleteAsync"
  /\ Completed(c, {ckey[c]})
  /\ UNCHANGED <<uiVars, statsVars, setData, annVars, domVars, assetVars, now, useFileSystem, memoryCache,
                 asyncStorage, fileSystem, kind, ckey, cached, readVal, fetched,
                 bgState, opsStarted, persistSkipped, retryDue, owes, clean>>

\* clearCache(), lines 332-338, up to its first await: the memory map is cleared
\* and AsyncStorage.getAllKeys is issued
StartClearCache(c) ==
  /\ microtasks = <<>>
  /\ pc[c] = "idle"
  /\ opsStarted < MaxOps
  /\ opsStarted' = opsStarted + 1
  /\ kind' = [kind EXCEPT ![c] = "clearCache"]
  /\ memoryCache' = [k \in MaintKeys |-> NoEntry]
  /\ readVal' = [readVal EXCEPT ![c] = {k \in MaintKeys : asyncStorage[k] # NoItem}]
  /\ pc' = [pc EXCEPT ![c] = "getAllKeys"]
  /\ Alone(c)
  /\ UNCHANGED <<uiVars, statsVars, maintVars, annVars, domVars, assetVars, now, useFileSystem, asyncStorage,
                 fileSystem, microtasks, ckey, cached, fetched, result, bgState,
                 persistSkipped, retryDue, owes>>

\* clearCache, lines 338-349: getAllKeys has settled.  Resolved (ok): multiRemove
\* of the keys it listed is issued (okRemove: whether it succeeds).  Rejected:
\* the catch block logs, and getInfoAsync(CACHE_DIR) is issued.
GetAllKeysDone(c, ok, okRemove) ==
  /\ microtasks = <<>>
  /\ pc[c] = "getAllKeys"
  /\ IF ok
       THEN /\ asyncStorage' = IF okRemove
                 THEN [k \in MaintKeys |-> IF k \in readVal[c] THEN NoItem ELSE asyncStorage[k]]
                 ELSE asyncStorage
            /\ pc' = [pc EXCEPT ![c] = "multiRemove"]
            /\ Alone(c)
       ELSE /\ pc' = [pc EXCEPT ![c] = "clearGetInfo"]
            /\ UNCHANGED <<asyncStorage, clean>>
  /\ UNCHANGED <<uiVars, statsVars, maintVars, annVars, domVars, assetVars, now, useFileSystem, memoryCache,
                 fileSystem, microtasks, kind, ckey, cached, readVal, fetched, result,
                 bgState, opsStarted, persistSkipped, retryDue, owes>>

\* clearCache, lines 340-349: multiRemove has settled (a rejection is caught and
\* logged); getInfoAsync(CACHE_DIR) is issued
MultiRemoveDone(c) ==
  /\ microtasks = <<>>
  /\ pc[c] = "multiRemove"
  /\ pc' = [pc EXCEPT ![c] = "clearGetInfo"]
  /\ UNCHANGED <<uiVars, statsVars, maintVars, annVars, domVars, assetVars, now, useFileSystem, memoryCache,
                 asyncStorage, fileSystem, microtasks, kind, ckey, cached, readVal,
                 fetched, result, bgState, opsStarted, persistSkipped, retryDue, owes,
                 clean>>

\* clearCache, lines 348-356: getInfoAsync has settled (ok: resolved, the directory
\* exists); deleteAsync(CACHE_DIR) is issued (okDelete: whether it succeeds)
ClearGetInfoDone(c, ok, okDelete) ==
  /\ microtasks = <<>>
  /\ pc[c] = "clearGetInfo"
  /\ IF ok
       THEN /\ fileSystem' = IF okDelete THEN [k \in MaintKeys |-> NoItem] ELSE fileSystem
            /\ readVal' = [readVal EXCEPT ![c] = okDelete]
            /\ pc' = [pc EXCEPT ![c] = "clearDelete"]
            /\ Alone(c)
            /\ UNCHANGED <<result, microtasks, deleted>>
       ELSE /\ Completed(c, MaintKeys)
            /\ UNCHANGED <<fileSystem, readVal, clean>>
  /\ UNCHANGED <<uiVars, statsVars, setData, annVars, domVars, assetVars, now, useFileSystem, memoryCache,
                 asyncStorage, kind, ckey, cached, fetched, bgState, opsStarted,
                 persistSkipped, retryDue, owes>>

\* clearCache, lines 350-356: deleteAsync has settled.  Resolved:
\* makeDirectoryAsync is issued.  Rejected: the catch block logs, clearCache returns.
ClearDeleteDone(c) ==
  /\ microtasks = <<>>
  /\ pc[c] = "clearDelete"
  /\ IF readVal[c]
       THEN /\ pc' = [pc EXCEPT ![c] = "makeDirectory"]
            /\ UNCHANGED <<result, microtasks, deleted>>
       ELSE Completed(c, MaintKeys)
  /\ UNCHANGED <<uiVars, statsVars, setData, annVars, domVars, assetVars, now, useFileSystem, memoryCache,
                 asyncStorage, fileSystem, kind, ckey, cached, readVal, fetched,
                 bgState, opsStarted, persistSkipped, retryDue, owes, clean>>

\* clearCache, lines 351-356: makeDirectoryAsync has settled; clearCache returns
MakeDirectoryDone(c) ==
  /\ microtasks = <<>>
  /\ pc[c] = "makeDirectory"
  /\ Completed(c, MaintKeys)
  /\ UNCHANGED <<uiVars, statsVars, setData, annVars, domVars, assetVars, now, useFileSystem, memoryCache,
                 asyncStorage, fileSystem, kind, ckey, cached, readVal, fetched,
                 bgState, opsStarted, persistSkipped, retryDue, owes, clean>>

\* setCache<T>(key, data: T), line 278: a string other than the stored one, and a
\* value that is no string (line 290)
MaintData == {"B", "Obj"}

\* The exported functions are called by value: which caller makes a call changes
\* nothing (lines 244, 278, 304, 332), so the next call is made by the first
\* caller that is ready for one.
NextCaller(c) == \A other \in Callers : other < c => pc[other] # "idle"

\* getCache and setCache alone, with reads that may fail (lines 166-299)
NextReadWrite ==
  \/ \E c \in Callers, k \in MaintKeys : NextCaller(c) /\ StartGetCache(c, k)
  \/ \E c \in Callers, k \in MaintKeys, d \in MaintData, ok \in BOOLEAN :
       NextCaller(c) /\ StartSetCache(c, k, d, ok)
  \/ \E c \in Callers : GetItemDone(c)
  \/ \E c \in Callers : GetInfoDone(c)
  \/ \E c \in Callers : ReadAsStringDone(c)
  \/ \E c \in Callers : ReadRejects(c)
  \/ \E c \in Callers : WriteDone(c)
  \/ \E c \in Callers : Resume(c)
  \/ \E c \in Callers : Finish(c)

NextMaint ==
  \/ \E c \in Callers, k \in MaintKeys : NextCaller(c) /\ StartGetCache(c, k)
  \/ \E c \in Callers, k \in MaintKeys, d \in MaintData, ok \in BOOLEAN :
       NextCaller(c) /\ StartSetCache(c, k, d, ok)
  \/ \E c \in Callers : GetItemDone(c)
  \/ \E c \in Callers : GetInfoDone(c)
  \/ \E c \in Callers : ReadAsStringDone(c)
  \/ \E c \in Callers : ReadRejects(c)
  \/ \E c \in Callers : WriteDone(c)
  \/ \E c \in Callers, k \in MaintKeys, ok \in BOOLEAN :
       NextCaller(c) /\ StartRemoveCache(c, k, ok)
  \/ \E c \in Callers : RemoveItemDone(c)
  \/ \E c \in Callers, ok \in BOOLEAN, okDelete \in BOOLEAN : RemoveGetInfoDone(c, ok, okDelete)
  \/ \E c \in Callers : RemoveDeleteDone(c)
  \/ \E c \in Callers : NextCaller(c) /\ StartClearCache(c)
  \/ \E c \in Callers, ok \in BOOLEAN, okRemove \in BOOLEAN : GetAllKeysDone(c, ok, okRemove)
  \/ \E c \in Callers : MultiRemoveDone(c)
  \/ \E c \in Callers, ok \in BOOLEAN, okDelete \in BOOLEAN : ClearGetInfoDone(c, ok, okDelete)
  \/ \E c \in Callers : ClearDeleteDone(c)
  \/ \E c \in Callers : MakeDirectoryDone(c)
  \/ \E c \in Callers : Resume(c)
  \/ \E c \in Callers : Finish(c)

\* ---------------------------------------------------- maintenance claims
\* A call of the given kind by c has returned to its caller
Returned(c, callKind) == kind[c] = callKind /\ pc[c] = "done"

\* C22: a clearCache call that returned successfully, while nobody else used the
\* cache, has left no entry in memory, in AsyncStorage or in the cache directory.
C22_ClearCacheAllOrFailure ==
  \A c \in Callers :
    (Returned(c, "clearCache") /\ clean[c] /\ result[c] = "void") =>
      \A k \in MaintKeys :
        /\ memoryCache[k] = NoEntry
        /\ asyncStorage[k] = NoItem
        /\ fileSystem[k] = NoItem

\* The getCache call of c returns in this step, after a read of its tier
GetCacheReturns(c) ==
  /\ kind[c] = "getCache"
  /\ pc[c] \in {"getItem", "getInfoAsync", "readAsString"}
  /\ pc'[c] = "resume"

SetCacheCalled(c) == pc[c] = "idle" /\ kind'[c] = "setCache"

\* The setCache call of c returns in this step
SetCacheReturns(c) ==
  /\ kind'[c] = "setCache"
  /\ pc[c] \in {"idle", "setCache"}
  /\ pc'[c] = "resume"

\* What getCache(key) would return holds the data, is given ttl Ttl and is not stale
HoldsFresh(entry, data, time) ==
  /\ entry # NoEntry
  /\ entry.data = data
  /\ entry.ttl = Ttl
  /\ ~(time - entry.timestamp > entry.ttl)

\* C25: setCache never rejects, and it writes the memory tier whatever happens to
\* the persistent write (which stores the new entry or, failing or refused, leaves
\* the tier as it was): as soon as it is called, and when it returns with no other
\* call made meanwhile, getCache(key) gives the data just set in an entry that is
\* not stale.
C25_SetCacheAlwaysInMemory ==
  [][\A c \in Callers :
       /\ SetCacheCalled(c) =>
            /\ HoldsFresh(memoryCache'[ckey'[c]], setData'[c], now')
            /\ \/ asyncStorage' = asyncStorage /\ fileSystem' = fileSystem
               \/ HoldsFresh(PersistedIn(fileSystem', asyncStorage', ckey'[c]), setData'[c], now')
       /\ SetCacheReturns(c) =>
            /\ result'[c] = "void"
            /\ opsStarted' = 1 => HoldsFresh(memoryCache'[ckey'[c]], setData'[c], now')]_vars

\* A setCache call has returned whose persistent write failed or was refused,
\* with the stored value as it was
C25_Witness ==
  \E c \in Callers :
    /\ Returned(c, "setCache")
    /\ opsStarted = 1
    /\ Persisted(ckey[c]) = NoEntry \/ Persisted(ckey[c]).data # setData[c]
    /\ HoldsFresh(getCacheNow(ckey[c]), setData[c], now)

\* C29: once a removeCache(key) or clearCache() call has returned and no setCache
\* for the key has been called since, getCache(key) returns absent.
C29_DeletedStaysAbsent ==
  \A k \in MaintKeys : deleted[k] => getCacheNow(k) = NoEntry

\* ======================================================== getCacheStats
\* src/lib/cache.ts, lines 362-418

\* value.length of a stored text; fileInfo.size of a file
length(text) == Len(text)

\* `undefined` for oldestEntry / newestEntry (timestamps are positive)
Undefined == 0

\* The keys getAllKeys lists and the files readDirectoryAsync lists, in order
KeyOrder == <<StoreKey, FileKey>>

Listed(store) == SelectSeq(KeyOrder, LAMBDA k : store[k] # NoItem)

\* CacheStats, lines 23-29
CacheStats(asyncStorageSize, fileSystemSize, entryCount, oldestEntry, newestEntry) ==
  [asyncStorageSize |-> asyncStorageSize, fileSystemSize |-> fileSystemSize,
   entryCount |-> entryCount, oldestEntry |-> oldestEntry, newestEntry |-> newestEntry]

\* The body of the loop over the cache keys, lines 375-390, for a value read:
\* an unparsable value adds its size only
addItem(st, value) ==
  LET sized == [st EXCEPT !.asyncStorageSize = @ + length(value)]
  IN IF ~IsJSON(value) THEN sized
     ELSE LET entry == JSONparse(value) IN
       IF entry.timestamp = 0 THEN sized
       ELSE [sized EXCEPT
              !.oldestEntry = IF @ = Undefined \/ entry.timestamp < @ THEN entry.timestamp ELSE @,
              !.newestEntry = IF @ = Undefined \/ entry.timestamp > @ THEN entry.timestamp ELSE @]

\* The body of the loop over the files, lines 401-405
addFile(st, file) == [st EXCEPT !.fileSystemSize = @ + length(file)]

StatsAtRest ==
  /\ statsPc = "idle"
  /\ statsRest = <<>>
  /\ stats = CacheStats(0, 0, 0, Undefined, Undefined)
  /\ statsFailed = <<>>

\* The stored items getCacheStats may meet: entries written at different times,
\* a text cut short, files
InitStats ==
  /\ now = MaxTime
  /\ useFileSystem = [k \in MaintKeys |-> k = FileKey]
  /\ memoryCache = [k \in MaintKeys |-> NoEntry]
  /\ asyncStorage \in [MaintKeys ->
       {NoItem, Unparsable} \cup
       {JSONstringify(CacheEntry("A", t, Ttl, StoreKey)) : t \in 1..MaxTime}]
  /\ fileSystem \in [MaintKeys -> {NoItem, FileContent(1, Ttl, "A")}]
  /\ microtasks = <<>>
  /\ pc = [c \in Callers |-> "idle"]
  /\ kind = [c \in Callers |-> Nil]
  /\ ckey = [c \in Callers |-> StoreKey]
  /\ cached = [c \in Callers |-> NoEntry]
  /\ readVal = [c \in Callers |-> NoItem]
  /\ fetched = [c \in Callers |-> Nil]
  /\ result = [c \in Callers |-> Nil]
  /\ bgState = [c \in Callers |-> "none"]
  /\ opsStarted = 0
  /\ persistSkipped = FALSE
  /\ retryDue = FALSE
  /\ owes = [c \in Callers |-> FALSE]
  /\ clean = [c \in Callers |-> FALSE]
  /\ setData = [c \in Callers |-> Nil]
  /\ deleted = [k \in MaintKeys |-> FALSE]
  /\ StatsAtRest

StatsFrame ==
  UNCHANGED <<uiVars, cacheVars, annVars, domVars, assetVars, maintVars>>

\* getCacheStats returns what it has (line 411)
StatsReturn ==
  /\ statsPc' = "returned"
  /\ statsRest' = <<>>

\* After the loop over the keys: getInfoAsync(CACHE_DIR) is issued (line 393)
StatsToDirectory ==
  /\ statsPc' = "getInfoDir"
  /\ statsRest' = <<>>

\* getCacheStats(), lines 362-371, up to its first await
StartGetCacheStats ==
  /\ statsPc = "idle"
  /\ statsPc' = "getAllKeys"
  /\ UNCHANGED <<statsRest, stats, statsFailed>>
  /\ StatsFrame

\* lines 371-376: getAllKeys has settled (ok: resolved); the keys are counted and
\* the first getItem is issued.  A rejection ends in the catch block (line 407).
StatsKeysDone(ok) ==
  /\ statsPc = "getAllKeys"
  /\ IF ok
       THEN /\ stats' = [stats EXCEPT !.entryCount = Len(Listed(asyncStorage))]
            /\ IF Listed(asyncStorage) = <<>>
                 THEN StatsToDirectory
                 ELSE /\ statsPc' = "getItem"
                      /\ statsRest' = Listed(asyncStorage)
       ELSE /\ StatsReturn
            /\ stats' = stats
  /\ statsFailed' = statsFailed
  /\ StatsFrame

\* lines 375-390: the getItem of a key has settled (ok: resolved).  A rejection
\* leaves the loop for the catch block of line 407.
StatsItemDone(ok) ==
  /\ statsPc = "getItem"
  /\ IF ok
       THEN /\ stats' = addItem(stats, asyncStorage[Head(statsRest)])
            /\ statsFailed' = statsFailed
            /\ IF Tail(statsRest) = <<>>
                 THEN StatsToDirectory
                 ELSE /\ statsPc' = "getItem"
                      /\ statsRest' = Tail(statsRest)
       ELSE /\ statsFailed' = <<"store", Head(statsRest)>>
            /\ stats' = stats
            /\ StatsReturn
  /\ StatsFrame

\* lines 393-395: getInfoAsync(CACHE_DIR) has settled (ok: the directory exists);
\* readDirectoryAsync is issued
StatsDirInfoDone(ok) ==
  /\ statsPc = "getInfoDir"
  /\ IF ok THEN statsPc' = "readDirectory" /\ statsRest' = <<>>
           ELSE StatsReturn
  /\ UNCHANGED <<stats, statsFailed>>
  /\ StatsFrame

\* lines 395-399: readDirectoryAsync has settled (ok: resolved); the files are
\* counted and the first getInfoAsync of a file is issued
StatsReadDirDone(ok) ==
  /\ statsPc = "readDirectory"
  /\ IF ok
       THEN /\ stats' = [stats EXCEPT !.entryCount = @ + Len(Listed(fileSystem))]
            /\ IF Listed(fileSystem) = <<>>
                 THEN StatsReturn
                 ELSE /\ statsPc' = "getInfoFile"
                      /\ statsRest' = Listed(fileSystem)
       ELSE /\ StatsReturn
            /\ stats' = stats
  /\ statsFailed' = statsFailed
  /\ StatsFrame

\* lines 398-405: the getInfoAsync of a file has settled (ok: resolved)
StatsFileInfoDone(ok) ==
  /\ statsPc = "getInfoFile"
  /\ IF ok
       THEN /\ stats' = addFile(stats, fileSystem[Head(statsRest)])
            /\ statsFailed' = statsFailed
            /\ IF Tail(statsRest) = <<>>
                 THEN StatsReturn
                 ELSE /\ statsPc' = "getInfoFile"
                      /\ statsRest' = Tail(statsRest)
       ELSE /\ statsFailed' = <<"file", Head(statsRest)>>
            /\ stats' = stats
            /\ StatsReturn
  /\ StatsFrame

NextStats ==
  \/ StartGetCacheStats
  \/ \E ok \in BOOLEAN : StatsKeysDone(ok)
  \/ \E ok \in BOOLEAN : StatsItemDone(ok)
  \/ \E ok \in BOOLEAN : StatsDirInfoDone(ok)
  \/ \E ok \in BOOLEAN : StatsReadDirDone(ok)
  \/ \E ok \in BOOLEAN : StatsFileInfoDone(ok)

\* ------------------------------------------------------- stats claims
\* The totals of the given keys and files, visited in order
RECURSIVE TotalOf(_, _, _)
TotalOf(st, keys, files) ==
  IF keys # <<>> THEN TotalOf(addItem(st, asyncStorage[Head(keys)]), Tail(keys), files)
  ELSE IF files # <<>> THEN TotalOf(addFile(st, fileSystem[Head(files)]), keys, Tail(files))
  ELSE st

\* The entries of a tier other than the one whose read failed
Others(tier, store) ==
  SelectSeq(Listed(store), LAMBDA k : statsFailed # <<tier, k>>)

\* C23: when the read of one entry fails, getCacheStats still returns the byte
\* totals and the oldest/newest timestamps of all other entries of both tiers,
\* and counts at least those entries.
C23_StatsSkipOnlyFailedEntry ==
  (statsPc = "returned" /\ statsFailed # <<>>) =>
    LET expected == TotalOf(CacheStats(0, 0, 0, Undefined, Undefined),
                            Others("store", asyncStorage), Others("file", fileSystem))
    IN /\ stats.asyncStorageSize = expected.asyncStorageSize
       /\ stats.fileSystemSize = expected.fileSystemSize
       /\ stats.oldestEntry = expected.oldestEntry
       /\ stats.newestEntry = expected.newestEntry
       /\ stats.entryCount >= Len(Others("store", asyncStorage)) + Len(Others("file", fileSystem))

\* ================================================= content screen loads
\* The loadContent effect of the content screen (home screen, lines 46-82;
\* sacraments.tsx, lines 27-73) and selectDate of ServicesProvider
\* (ServicesContext.tsx, lines 71-85)
MaxLoads == 2
MaxSelects == 2

Resources == {"r1", "r2"}
NoResource == "none"
Dates == {"d1", "d2"}
NoDate == "none"

\* `null` for htmlContent, `[]` for services, `null` for loadError
NoHtml == <<>>
NoServices == <<>>
NoError == "null"
LoadFailed == "Unable to load service content. Please try again later."

\* What fetchHtml(resource.url) and fetchServicesForDate(isoDate) resolve with
fetchHtml(resource) == <<"html", resource>>
fetchServicesForDate(isoDate) == <<"services", isoDate>>

\* if (!cancelled) { set...(value) }, lines 62-64 and 66-69: the state after
\* (first a variant without the test)
setAlways(cancelled, current, value) == value

setUnlessCancelled(cancelled, current, value) ==
  IF cancelled THEN current ELSE value

\* The cleanup of the effect, lines 79-81: `cancelled = true` in the closure of
\* the run that is current; the older runs are cancelled already
cleanup(runs) == [i \in 1..Len(runs) |-> [runs[i] EXCEPT !.cancelled = TRUE]]

\* The sequence without its i-th element
Without(s, i) == SubSeq(s, 1, i - 1) \o SubSeq(s, i + 1, Len(s))

NoRun == [id |-> 0, resource |-> NoResource, cancelled |-> FALSE, outcome |-> "none"]

\* After mount with no resource selected: the effect took its first branch
UiAtRest ==
  /\ selectedResource = NoResource
  /\ mounted = TRUE
  /\ htmlContent = NoHtml
  /\ loadError = NoError
  /\ isLoadingHtml = FALSE
  /\ loads = <<>>
  /\ loadsStarted = 0
  /\ lastSettled = NoRun
  /\ selectedDate = NoDate
  /\ services = NoServices
  /\ loadingServices = FALSE
  /\ dateFetches = <<>>
  /\ selectCalls = 0
  /\ fetchRejected = FALSE

UiFrame == UNCHANGED <<cacheVars, annVars, domVars, assetVars, maintVars, statsVars>>

ProviderFrame == UNCHANGED <<selectedDate, services, loadingServices, dateFetches,
                             selectCalls, fetchRejected>>

ScreenFrame == UNCHANGED <<selectedResource, mounted, htmlContent, loadError,
                           isLoadingHtml, loads, loadsStarted, lastSettled>>

\* selectedResource changes and the screen re-renders: the cleanup of the last
\* effect run, then the effect, lines 46-82, up to the first await of loadContent
SelectResource(r) ==
  /\ mounted
  /\ r # selectedResource
  /\ loadsStarted < MaxLoads
  /\ selectedResource' = r
  /\ IF r = NoResource
       THEN /\ htmlContent' = NoHtml
            /\ loadError' = NoError
            /\ loads' = cleanup(loads)
            /\ UNCHANGED <<isLoadingHtml, loadsStarted>>
       ELSE /\ isLoadingHtml' = TRUE
            /\ loadError' = NoError
            /\ loadsStarted' = loadsStarted + 1
            /\ loads' = Append(cleanup(loads),
                 [id |-> loadsStarted + 1, resource |-> r, cancelled |-> FALSE])
            /\ htmlContent' = htmlContent
  /\ UNCHANGED <<mounted, lastSettled>>
  /\ ProviderFrame
  /\ UiFrame

\* The screen unmounts: the cleanup of the last effect run
Unmount ==
  /\ mounted
  /\ mounted' = FALSE
  /\ loads' = cleanup(loads)
  /\ UNCHANGED <<selectedResource, htmlContent, loadError, isLoadingHtml,
                 loadsStarted, lastSettled>>
  /\ ProviderFrame
  /\ UiFrame

\* loadContent, lines 59-64 and 70-74: the fetch of the i-th pending run resolves
LoadResolves(i) ==
  /\ i \in 1..Len(loads)
  /\ LET run == loads[i] IN
       /\ htmlContent' = setUnlessCancelled(run.cancelled, htmlContent, fetchHtml(run.resource))
       /\ isLoadingHtml' = setUnlessCancelled(run.cancelled, isLoadingHtml, FALSE)
       /\ lastSettled' = [id |-> run.id, resource |-> run.resource,
                          cancelled |-> run.cancelled, outcome |-> "resolved"]
  /\ loads' = Without(loads, i)
  /\ UNCHANGED <<selectedResource, mounted, loadError, loadsStarted>>
  /\ ProviderFrame
  /\ UiFrame

\* loadContent, lines 65-74: the fetch of the i-th pending run rejects
LoadRejects(i) ==
  /\ i \in 1..Len(loads)
  /\ LET run == loads[i] IN
       /\ loadError' = setUnlessCancelled(run.cancelled, loadError, LoadFailed)
       /\ isLoadingHtml' = setUnlessCancelled(run.cancelled, isLoadingHtml, FALSE)
       /\ lastSettled' = [id |-> run.id, resource |-> run.resource,
                          cancelled |-> run.cancelled, outcome |-> "rejected"]
  /\ loads' = Without(loads, i)
  /\ UNCHANGED <<selectedResource, mounted, htmlContent, loadsStarted>>
  /\ ProviderFrame
  /\ UiFrame

\* selectDate(isoDate), ServicesContext.tsx lines 71-76, up to its await
selectDate(isoDate) ==
  /\ selectCalls < MaxSelects
  /\ selectCalls' = selectCalls + 1
  /\ selectedDate' = isoDate
  /\ services' = NoServices
  /\ loadingServices' = TRUE
  /\ dateFetches' = Append(dateFetches, [id |-> selectCalls + 1, isoDate |-> isoDate])
  /\ fetchRejected' = fetchRejected
  /\ ScreenFrame
  /\ UiFrame

\* selectDate, lines 76-77 and 82-84: the fetch of the i-th pending call resolves
ServicesFetchResolves(i) ==
  /\ i \in 1..Len(dateFetches)
  /\ services' = fetchServicesForDate(dateFetches[i].isoDate)
  /\ loadingServices' = FALSE
  /\ dateFetches' = Without(dateFetches, i)
  /\ UNCHANGED <<selectedDate, selectCalls, fetchRejected>>
  /\ ScreenFrame
  /\ UiFrame

\* selectDate, lines 78-84: the fetch of the i-th pending call rejects
ServicesFetchRejects(i) ==
  /\ i \in 1..Len(dateFetches)
  /\ services' = NoServices
  /\ loadingServices' = FALSE
  /\ dateFetches' = Without(dateFetches, i)
  /\ fetchRejected' = TRUE
  /\ UNCHANGED <<selectedDate, selectCalls>>
  /\ ScreenFrame
  /\ UiFrame

NextUi ==
  \/ \E r \in Resources \cup {NoResource} : SelectResource(r)
  \/ Unmount
  \/ \E i \in 1..MaxLoads : LoadResolves(i)
  \/ \E i \in 1..MaxLoads : LoadRejects(i)
  \/ \E isoDate \in Dates : selectDate(isoDate)
  \/ \E i \in 1..MaxSelects : ServicesFetchResolves(i)
  \/ \E i \in 1..MaxSelects : ServicesFetchRejects(i)

\* ---------------------------------------------------------- ui claims
\* C26: when the fetch of a loadContent run settles after the selected resource
\* has changed or the screen has unmounted, neither htmlContent nor loadError
\* changes, whatever was loaded in between.
C26_StaleLoadDiscarded ==
  [][(lastSettled' # lastSettled /\ lastSettled'.cancelled) =>
       /\ htmlContent' = htmlContent
       /\ loadError' = loadError]_vars

\* An earlier load has settled after the load of the resource now shown
C26_Witness ==
  /\ mounted
  /\ lastSettled.cancelled
  /\ lastSettled.resource # selectedResource
  /\ selectedResource # NoResource
  /\ htmlContent = fetchHtml(selectedResource)
  /\ loads = <<>>

\* C30: when the fetches of the selectDate calls made have all resolved, in
\* whatever order, services is the list fetched for selectedDate, the date of the
\* last call.
C30_LastSelectedDateShown ==
  (selectedDate # NoDate /\ dateFetches = <<>> /\ ~fetchRejected) =>
    services = fetchServicesForDate(selectedDate)

\* ------------------------------------------------------- specifications
\* The cache of a freshly started process; the annotation store at rest
AnnAtRest ==
  /\ annStorage = NoItem
  /\ annotations = <<>>
  /\ isLoading = FALSE
  /\ annIO = <<>>
  /\ annOps = 0
  /\ nextId = 1
  /\ created = {}
  /\ removed = {}
  /\ annError = FALSE
  /\ annCalls = <<>>
  /\ annResults = <<>>
  /\ earlyOp = FALSE
  /\ persistedAtStart = Ids(StoredAnnotations)

\* No document is being annotated
DomAtRest ==
  /\ dom = PageRewritten
  /\ injected = <<>>
  /\ log = <<>>
  /\ rendered = <<>>
  /\ passes = 0

\* No asset is being cached
AssetsAtRest ==
  /\ assetUrl = [c \in Callers |-> <<>>]
  /\ downloadsStarted = [u \in Urls |-> 0]
  /\ downloadsFailed = [u \in Urls |-> 0]
  /\ downloaded = [u \in Urls |-> <<>>]
  /\ assetCalls = 0
  /\ htmlPc = "idle"
  /\ htmlRest = <<>>
  /\ htmlBatch = [c \in Callers |-> <<>>]
  /\ htmlConcurrent = 1
  /\ assetMap = [u \in Urls |-> JsString(<<>>)]

\* No setCache call recorded, nothing deleted
MaintAtRest ==
  /\ setData = [c \in Callers |-> Nil]
  /\ deleted = [k \in Keys |-> FALSE]

Init == InitCache /\ AnnAtRest /\ DomAtRest /\ AssetsAtRest /\ MaintAtRest /\ StatsAtRest /\ UiAtRest

Spec == Init /\ [][Next]_vars

\* The annotation store of a freshly mounted provider; the cache at rest
CacheAtRest ==
  /\ InitCache
  /\ useFileSystem = [k \in Keys |-> FALSE]
  /\ asyncStorage = [k \in Keys |-> NoItem]

InitAnnotations == CacheAtRest /\ InitAnn /\ DomAtRest /\ AssetsAtRest /\ MaintAtRest /\ StatsAtRest /\ UiAtRest

SpecAnn == InitAnnotations /\ [][NextAnnotations]_vars

\* The document view; the cache and the annotation store at rest
InitDocument == CacheAtRest /\ AnnAtRest /\ InitDom /\ AssetsAtRest /\ MaintAtRest /\ StatsAtRest /\ UiAtRest

SpecDom == InitDocument /\ [][NextDom]_vars

\* The asset cache of a freshly started process; the rest at rest
InitAssetCache == InitAssets /\ AnnAtRest /\ DomAtRest /\ MaintAtRest /\ StatsAtRest /\ UiAtRest

SpecAsset == InitAssetCache /\ [][NextAssets]_vars

\* The cache with one stored item per tier, intact or cut short; the rest at rest
InitMaintenance == InitMaint /\ AnnAtRest /\ DomAtRest /\ AssetsAtRest /\ StatsAtRest /\ UiAtRest

SpecMaint == InitMaintenance /\ [][NextMaint]_vars
SpecReadWrite == InitMaintenance /\ [][NextReadWrite]_vars

\* getCacheStats over a cache directory and a key-value store that are not written
InitStatistics == InitStats /\ AnnAtRest /\ DomAtRest /\ AssetsAtRest /\ UiAtRest

SpecStats == InitStatistics /\ [][NextStats]_vars

\* The content screen mounted with nothing selected; the stores at rest
InitUi ==
  /\ CacheAtRest /\ AnnAtRest /\ DomAtRest /\ AssetsAtRest /\ MaintAtRest /\ StatsAtRest
  /\ UiAtRest

SpecUi == InitUi /\ [][NextUi]_vars

====
